---------------------------- MODULE Spec2Model ----------------------------
(***************************************************************************)
(* Ledger-and-escrow engine of ce-wallet-service.                          *)
(*                                                                         *)
(* The database (PostgreSQL through knex, default READ COMMITTED) is the   *)
(* shared state: one brand wallet row, the creator wallet rows, the two    *)
(* transaction tables and the unlock table.  Every request runs as a       *)
(* process that executes its handler statement by statement.  A statement  *)
(* issued on the pool (db(...)) commits on its own; statements issued on a *)
(* knex transaction (trx(...)) are buffered in the process and become      *)
(* visible at trx.commit().  An UPDATE inside a transaction keeps the row  *)
(* locked until commit or rollback; a plain SELECT takes no lock and sees  *)
(* the last committed row.  Amounts are modelled as integers.              *)
(***************************************************************************)
EXTENDS Integers, Sequences, FiniteSets, TLC

VARIABLES
    bw,        \* the brand_wallets row of the brand
    cw,        \* wallets rows: creator -> row or NoRow
    btx,       \* brand_transactions, in insertion order (id = position)
    ctx,       \* transactions (creator side), in insertion order
    unlocked,  \* brand_unlocked_creators rows of the brand (creator ids, one per row)
    pkgs,      \* the packages table: package name -> row
    bank_accounts, \* bank_accounts rows, in insertion order (id = position)
    req,       \* the requests in flight: process -> handler position and locals
    hist,      \* the last committed hold, until another escrow commit follows it
    nops       \* number of requests started so far

vars == <<bw, cw, btx, ctx, unlocked, pkgs, bank_accounts, req, hist, nops>>

----------------------------------------------------------------------------
(* Bounds of the model *)

MaxOps == 4
MaxSeqOps == 4

Procs == {"p1", "p2"}
Creators == {"c1"}
Campaigns == {"k1", "k2"}
Amounts == {1, 2}
\* amounts a caller may send: the route's validators are never enforced, so a
\* negative amount reaches the engine
AnyAmounts == Amounts \cup {-1}

NoRow == [none |-> TRUE]
\* a column or metadata field the INSERT leaves out (NULL / undefined)
Null == -1
NoHist == [kind |-> "none", eb |-> 0, oh |-> 0, amt |-> 0, camp |-> "-"]

\* the packages table: the free package credited at wallet creation, a
\* subscription and a topup on sale, a withdrawn (inactive) package and a
\* package sold to creators
Packages ==
    [free  |-> [package_type |-> "subscription", tokens_included |-> 2, price |-> 0,
                report_token_cost |-> 1, validity_days |-> Null,
                is_active |-> TRUE, user_type |-> "brand"],
     pro   |-> [package_type |-> "subscription", tokens_included |-> 2, price |-> 5,
                report_token_cost |-> 1, validity_days |-> 30,
                is_active |-> TRUE, user_type |-> "brand"],
     topup |-> [package_type |-> "topup", tokens_included |-> 1, price |-> 3,
                report_token_cost |-> 1, validity_days |-> Null,
                is_active |-> TRUE, user_type |-> "brand"],
     legacy |-> [package_type |-> "subscription", tokens_included |-> 2, price |-> 4,
                report_token_cost |-> 1, validity_days |-> 30,
                is_active |-> FALSE, user_type |-> "brand"],
     creatorpack |-> [package_type |-> "subscription", tokens_included |-> 2, price |-> 4,
                report_token_cost |-> 1, validity_days |-> 30,
                is_active |-> TRUE, user_type |-> "creator"]]

\* package_expires_at as the code computes it: validity_days from activation
\* when the package has a validity, else NULL (activation times are left out,
\* an expiry stands for the validity it was computed from)
ExpiresAt(validityDays) == IF validityDays > 0 THEN validityDays ELSE Null

----------------------------------------------------------------------------
(* Rows *)

\* brand_wallets row as inserted by getOrCreateBrandWallet
NewBrandWallet(tokens, pkg) ==
    [id |-> 1,
     token_balance |-> tokens,
     total_tokens_credited |-> tokens,
     total_tokens_debited |-> 0,
     escrow_balance |-> 0,
     escrow_on_hold |-> 0,
     total_escrow_deposited |-> 0,
     total_escrow_released |-> 0,
     total_escrow_refunded |-> 0,
     current_package |-> pkg,
     current_package_id |-> "-",
     package_expires_at |-> ExpiresAt(Packages[pkg].validity_days)]

\* wallets row as inserted by releaseEscrow / getOrCreateWallet
NewCreatorWallet ==
    [balance |-> 0, pending_balance |-> 0, total_earnings |-> 0, total_withdrawals |-> 0]

\* brand_transactions row
BrandTx(type, amount, balanceAfter, status, order, tokens, ptype, pname, ref, other) ==
    [type |-> type, amount |-> amount, balance_after |-> balanceAfter,
     status |-> status, order |-> order, tokens |-> tokens, ptype |-> ptype,
     pname |-> pname, validity |-> Null, ref |-> ref, other |-> other]

\* transactions row (creator side)
CreatorTx(user, type, amount, balanceAfter, status, ref, other) ==
    [user |-> user, type |-> type, amount |-> amount, balance_after |-> balanceAfter,
     status |-> status, ref |-> ref, other |-> other]

----------------------------------------------------------------------------
(* Requests *)

\* a request that is not running; res is what its last run returned or threw
Idle(res) ==
    [op |-> "none", pc |-> "idle", amt |-> 0, cr |-> "-", camp |-> "-", tx |-> 0,
     flag |-> FALSE, rd |-> 0, rd2 |-> 0, wbw |-> NoRow, ins |-> <<>>, res |-> res]

\* a request that has returned: the handler it ran, the transaction id it was
\* given or created, and what it returned or threw
Done(op, tx, res) == [Idle(res) EXCEPT !.op = op, !.tx = tx]

IsIdle(p) == req[p].pc = "idle"

\* no request is running
Quiescent == \A p \in Procs : IsIdle(p)

\* the brand wallet row is locked by an uncommitted UPDATE of another request
BwLockedByOther(p) == \E q \in Procs \ {p} : req[q].wbw # NoRow

CanStart(p) == IsIdle(p) /\ nops < MaxOps

Begin(p, op, pc, amt, cr, camp) ==
    [Idle("-") EXCEPT !.op = op, !.pc = pc, !.amt = amt, !.cr = cr, !.camp = camp]

----------------------------------------------------------------------------
(* Initial states *)

\* the welcome token_credit row getOrCreateBrandWallet inserts with the wallet
WelcomeTx ==
    BrandTx("token_credit", Packages.free.tokens_included, Packages.free.tokens_included,
            "completed", 0, Packages.free.tokens_included, "-", "free", "free", "-")

\* the brand's wallet as getOrCreateBrandWallet created it
InitCommon ==
    /\ pkgs = Packages
    /\ bank_accounts = <<>>
    /\ cw = [c \in Creators |-> NoRow]
    /\ ctx = <<>>
    /\ unlocked = <<>>
    /\ req = [p \in Procs |-> Idle("-")]
    /\ hist = NoHist
    /\ nops = 0

Init ==
    /\ bw = NewBrandWallet(Packages.free.tokens_included, "free")
    /\ btx = <<WelcomeTx>>
    /\ InitCommon

\* the wallet after one verified escrow deposit of e (initiateEscrowDeposit,
\* verifyEscrowDeposit)
FundedWallet(e) ==
    [NewBrandWallet(Packages.free.tokens_included, "free")
       EXCEPT !.escrow_balance = e, !.total_escrow_deposited = e]

DepositedTx(e) ==
    BrandTx("escrow_deposit", e, e, "completed", 2, Null, "-", "-", "-", "-")

InitEscrow ==
    /\ \E e \in Amounts :
          /\ bw = FundedWallet(e)
          /\ btx = <<WelcomeTx, DepositedTx(e)>>
    /\ InitCommon

\* the wallets after the deposit of e was held and released to creator c
\* (holdEscrow, releaseEscrow)
ReleasedWallet(e) ==
    [FundedWallet(e) EXCEPT !.escrow_balance = 0, !.total_escrow_released = e]

InitWithdraw ==
    /\ \E e \in Amounts :
          /\ bw = ReleasedWallet(e)
          /\ btx = <<WelcomeTx, DepositedTx(e),
                     BrandTx("escrow_hold", e, 0, "completed", 0, Null, "-", "-", "k1", "-"),
                     BrandTx("escrow_release", e, 0, "completed", 0, Null, "-", "-", "k1", "c1")>>
          /\ cw = [c \in Creators |->
                     IF c = "c1" THEN [NewCreatorWallet EXCEPT !.balance = e, !.total_earnings = e]
                     ELSE NoRow]
          /\ ctx = <<CreatorTx("c1", "earning", e, e, "completed", "k1", "b1")>>
    /\ unlocked = <<>>
    /\ pkgs = Packages
    /\ bank_accounts = <<>>
    /\ req = [p \in Procs |-> Idle("-")]
    /\ hist = NoHist
    /\ nops = 0

\* a request dies (process killed, connection lost): PostgreSQL rolls back its
\* open transaction, so the buffered writes are dropped; what it had already
\* committed stays
Crash(p) ==
    /\ ~IsIdle(p)
    /\ req' = [req EXCEPT ![p] = Done(req[p].op, req[p].tx, "crashed")]
    /\ UNCHANGED <<bank_accounts, pkgs, bw, cw, btx, ctx, unlocked, hist, nops>>

----------------------------------------------------------------------------
(* Brand wallet: get or create *)

\* the id the database generates for the row a request inserts
WalletId(p) == IF p = "p1" THEN 1 ELSE 2

\* brand_wallets has one row per brand_id: an INSERT for a brand that has a
\* committed row fails with a unique violation (code 23505)
UniqueViolation == bw # NoRow

\* getOrCreateBrandWallet, steps 1-2: SELECT of the wallet; when there is none,
\* SELECT of the free package
getOrCreateBrandWallet_read(p) ==
    /\ CanStart(p)
    /\ nops' = nops + 1
    /\ IF bw # NoRow
         THEN req' = [req EXCEPT ![p] = Done("getOrCreateBrandWallet", bw.id, "ok")]
         ELSE req' = [req EXCEPT ![p] =
                        Begin(p, "getOrCreateBrandWallet", "gw_insert",
                              pkgs.free.tokens_included, "-", "-")]
    /\ UNCHANGED <<bank_accounts, pkgs, bw, cw, btx, ctx, unlocked, hist>>

\* an INSERT that lets a unique violation escape to the caller
getOrCreateBrandWallet_insert_nocatch(p) ==
    /\ req[p].pc = "gw_insert"
    /\ ~BwLockedByOther(p)
    /\ IF UniqueViolation
         THEN req' = [req EXCEPT ![p] = Done("getOrCreateBrandWallet", 0, "duplicate key")]
         ELSE req' = [req EXCEPT ![p].pc = "gw_commit",
                                 ![p].wbw = [NewBrandWallet(req[p].amt, "free")
                                               EXCEPT !.id = WalletId(p)],
                                 ![p].ins = IF req[p].amt > 0
                                            THEN <<BrandTx("token_credit", req[p].amt, req[p].amt,
                                                           "completed", 0, req[p].amt, "-",
                                                           "free", "free", "-")>>
                                            ELSE <<>>]
    /\ UNCHANGED <<bank_accounts, pkgs, bw, cw, btx, ctx, unlocked, hist, nops>>

\* getOrCreateBrandWallet, step 3: INSERT of the wallet row and of the welcome
\* token_credit row inside a transaction.  The INSERT waits while another
\* request's uncommitted INSERT holds the key; a unique violation is caught,
\* the transaction rolled back and the row fetched again
getOrCreateBrandWallet_insert(p) ==
    /\ req[p].pc = "gw_insert"
    /\ ~BwLockedByOther(p)
    /\ IF UniqueViolation
         THEN req' = [req EXCEPT ![p].pc = "gw_refetch"]
         ELSE req' = [req EXCEPT ![p].pc = "gw_commit",
                                 ![p].wbw = [NewBrandWallet(req[p].amt, "free")
                                               EXCEPT !.id = WalletId(p)],
                                 ![p].ins = IF req[p].amt > 0
                                            THEN <<BrandTx("token_credit", req[p].amt, req[p].amt,
                                                           "completed", 0, req[p].amt, "-",
                                                           "free", "free", "-")>>
                                            ELSE <<>>]
    /\ UNCHANGED <<bank_accounts, pkgs, bw, cw, btx, ctx, unlocked, hist, nops>>

\* getOrCreateBrandWallet, trx.commit(): wallet row and welcome row become visible
getOrCreateBrandWallet_commit(p) ==
    /\ req[p].pc = "gw_commit"
    /\ bw' = req[p].wbw
    /\ btx' = btx \o req[p].ins
    /\ req' = [req EXCEPT ![p] = Done("getOrCreateBrandWallet", req[p].wbw.id, "ok")]
    /\ UNCHANGED <<bank_accounts, pkgs, cw, ctx, unlocked, hist, nops>>

\* getOrCreateBrandWallet, after a unique violation: SELECT of the wallet again
getOrCreateBrandWallet_refetch(p) ==
    /\ req[p].pc = "gw_refetch"
    /\ IF bw # NoRow
         THEN req' = [req EXCEPT ![p] = Done("getOrCreateBrandWallet", bw.id, "ok")]
         ELSE req' = [req EXCEPT ![p] = Done("getOrCreateBrandWallet", 0,
                                             "Failed to create or fetch brand wallet")]
    /\ UNCHANGED <<bank_accounts, pkgs, bw, cw, btx, ctx, unlocked, hist, nops>>

----------------------------------------------------------------------------
(* Escrow engine: hold / release / refund *)

\* a hold that counts the amount as refunded while moving it
HoldUpdate_refunded(w, amount) ==
    [w EXCEPT !.escrow_balance = @ - amount, !.escrow_on_hold = @ + amount,
              !.total_escrow_refunded = @ + amount]

\* holdEscrow, wallet UPDATE: decrement escrow_balance, increment escrow_on_hold
HoldUpdate(w, amount) ==
    [w EXCEPT !.escrow_balance = @ - amount, !.escrow_on_hold = @ + amount]

\* a refund that forgets to give the amount back to escrow_balance
RefundUpdate_noCredit(w, amount) ==
    [w EXCEPT !.escrow_on_hold = @ - amount,
              !.total_escrow_refunded = @ + amount]

\* refundEscrow, wallet UPDATE
RefundUpdate(w, amount) ==
    [w EXCEPT !.escrow_on_hold = @ - amount,
              !.escrow_balance = @ + amount,
              !.total_escrow_refunded = @ + amount]

\* a release that takes the amount off escrow_on_hold without counting it as
\* released
ReleaseBrandUpdate_noCount(w, amount) ==
    [w EXCEPT !.escrow_on_hold = @ - amount]

\* releaseEscrow, brand wallet UPDATE
ReleaseBrandUpdate(w, amount) ==
    [w EXCEPT !.escrow_on_hold = @ - amount, !.total_escrow_released = @ + amount]

\* a release that credits the creator's balance and not total_earnings
ReleaseCreatorUpdate_noEarnings(w, amount) ==
    [w EXCEPT !.balance = @ + amount]

\* releaseEscrow, creator wallet UPDATE
ReleaseCreatorUpdate(w, amount) ==
    [w EXCEPT !.balance = @ + amount, !.total_earnings = @ + amount]

\* a holdEscrow that does not compare escrow_balance with the amount
holdEscrow_read_unchecked(p, amount, camp) ==
    /\ CanStart(p)
    /\ nops' = nops + 1
    /\ IF amount <= 0
         THEN req' = [req EXCEPT ![p] = Done("holdEscrow", 0, "Amount must be greater than 0")]
         ELSE req' = [req EXCEPT ![p] =
                        [Begin(p, "holdEscrow", "hold_update", amount, "-", camp)
                           EXCEPT !.rd = bw.escrow_balance]]
    /\ UNCHANGED <<bank_accounts, pkgs, bw, cw, btx, ctx, unlocked, hist>>

\* holdEscrow up to the precondition: validate, open the transaction, SELECT the
\* wallet (no lock), compare escrow_balance with the amount
holdEscrow_read(p, amount, camp) ==
    /\ CanStart(p)
    /\ nops' = nops + 1
    /\ IF amount <= 0
         THEN req' = [req EXCEPT ![p] = Done("holdEscrow", 0, "Amount must be greater than 0")]
         ELSE IF bw.escrow_balance < amount
         THEN req' = [req EXCEPT ![p] = Done("holdEscrow", 0, "Insufficient escrow balance")]
         ELSE req' = [req EXCEPT ![p] =
                        [Begin(p, "holdEscrow", "hold_update", amount, "-", camp)
                           EXCEPT !.rd = bw.escrow_balance]]
    /\ UNCHANGED <<bank_accounts, pkgs, bw, cw, btx, ctx, unlocked, hist>>

\* holdEscrow from the UPDATE to the commit: the UPDATE waits for the row lock and
\* applies the decrement to the row as it then is
holdEscrow_commit(p) ==
    /\ req[p].pc = "hold_update"
    /\ ~BwLockedByOther(p)
    /\ LET updatedWallet == HoldUpdate(bw, req[p].amt) IN
        /\ bw' = updatedWallet
        /\ btx' = Append(btx, BrandTx("escrow_hold", req[p].amt,
                                      updatedWallet.escrow_balance, "completed",
                                      0, Null, "-", "-", req[p].camp, "-"))
    /\ hist' = [kind |-> "hold", eb |-> bw.escrow_balance, oh |-> bw.escrow_on_hold,
                amt |-> req[p].amt, camp |-> req[p].camp]
    /\ req' = [req EXCEPT ![p] = Done("holdEscrow", req[p].tx, "ok")]
    /\ UNCHANGED <<bank_accounts, pkgs, cw, ctx, unlocked, nops>>

\* refundEscrow up to the precondition (escrow_on_hold against the amount)
refundEscrow_read(p, amount, camp) ==
    /\ CanStart(p)
    /\ nops' = nops + 1
    /\ IF amount <= 0
         THEN req' = [req EXCEPT ![p] = Done("refundEscrow", 0, "Amount must be greater than 0")]
         ELSE IF bw.escrow_on_hold < amount
         THEN req' = [req EXCEPT ![p] = Done("refundEscrow", 0, "Insufficient escrow on hold")]
         ELSE req' = [req EXCEPT ![p] =
                        [Begin(p, "refundEscrow", "refund_update", amount, "-", camp)
                           EXCEPT !.rd = bw.escrow_on_hold]]
    /\ UNCHANGED <<bank_accounts, pkgs, bw, cw, btx, ctx, unlocked, hist>>

\* refundEscrow from the UPDATE to the commit
refundEscrow_commit(p) ==
    /\ req[p].pc = "refund_update"
    /\ ~BwLockedByOther(p)
    /\ LET updatedWallet == RefundUpdate(bw, req[p].amt) IN
        /\ bw' = updatedWallet
        /\ btx' = Append(btx, BrandTx("escrow_refund", req[p].amt,
                                      updatedWallet.escrow_balance, "completed",
                                      0, Null, "-", "-", req[p].camp, "-"))
    /\ hist' = NoHist
    /\ req' = [req EXCEPT ![p] = Done("refundEscrow", req[p].tx, "ok")]
    /\ UNCHANGED <<bank_accounts, pkgs, cw, ctx, unlocked, nops>>

\* releaseEscrow up to the precondition (escrow_on_hold against the amount)
releaseEscrow_read(p, amount, camp, creator) ==
    /\ CanStart(p)
    /\ nops' = nops + 1
    /\ IF amount <= 0
         THEN req' = [req EXCEPT ![p] = Done("releaseEscrow", 0, "Amount must be greater than 0")]
         ELSE IF bw.escrow_on_hold < amount
         THEN req' = [req EXCEPT ![p] = Done("releaseEscrow", 0, "Insufficient escrow on hold")]
         ELSE req' = [req EXCEPT ![p] =
                        [Begin(p, "releaseEscrow", "rel_brand", amount, creator, camp)
                           EXCEPT !.rd = bw.escrow_on_hold]]
    /\ UNCHANGED <<bank_accounts, pkgs, bw, cw, btx, ctx, unlocked, hist>>

\* a release whose brand-side statements run on the pool and commit on their own
releaseEscrow_brand_autocommit(p) ==
    /\ req[p].pc = "rel_brand"
    /\ ~BwLockedByOther(p)
    /\ LET updatedWallet == ReleaseBrandUpdate(bw, req[p].amt) IN
        /\ bw' = updatedWallet
        /\ btx' = Append(btx, BrandTx("escrow_release", req[p].amt,
                                      updatedWallet.escrow_balance, "completed",
                                      0, Null, "-", "-", req[p].camp, req[p].cr))
        /\ req' = [req EXCEPT ![p].pc = "rel_cread",
                              ![p].wbw = updatedWallet,
                              ![p].ins = <<>>]
    /\ UNCHANGED <<bank_accounts, pkgs, cw, ctx, unlocked, hist, nops>>

\* releaseEscrow, brand side: UPDATE of the brand wallet and INSERT of the
\* escrow_release row, both inside the transaction (held in the request until commit)
releaseEscrow_brand(p) ==
    /\ req[p].pc = "rel_brand"
    /\ ~BwLockedByOther(p)
    /\ LET updatedWallet == ReleaseBrandUpdate(bw, req[p].amt) IN
        req' = [req EXCEPT ![p].pc = "rel_cread",
                           ![p].wbw = updatedWallet,
                           ![p].ins = <<BrandTx("escrow_release", req[p].amt,
                                                updatedWallet.escrow_balance, "completed",
                                                0, Null, "-", "-", req[p].camp, req[p].cr)>>]
    /\ UNCHANGED <<bank_accounts, pkgs, bw, cw, btx, ctx, unlocked, hist, nops>>

\* releaseEscrow, SELECT of the creator's wallet (-1: no row yet)
releaseEscrow_cread(p) ==
    /\ req[p].pc = "rel_cread"
    /\ req' = [req EXCEPT ![p].pc = "rel_credit",
                          ![p].rd2 = IF cw[req[p].cr] = NoRow THEN -1
                                     ELSE cw[req[p].cr].balance]
    /\ UNCHANGED <<bank_accounts, pkgs, bw, cw, btx, ctx, unlocked, hist, nops>>

\* releaseEscrow, creator side and commit: INSERT of the wallet row when the SELECT
\* found none (a row committed meanwhile is a unique violation: rollback), UPDATE
\* of the creator wallet, INSERT of the earning row, commit of both sides
releaseEscrow_credit(p) ==
    /\ req[p].pc = "rel_credit"
    /\ LET c == req[p].cr
           seen == req[p].rd2
       IN IF seen = -1 /\ cw[c] # NoRow
          THEN /\ req' = [req EXCEPT ![p] = Done("releaseEscrow", req[p].tx, "duplicate key")]
               /\ UNCHANGED <<bw, cw, btx, ctx, hist>>
          ELSE /\ cw' = [cw EXCEPT ![c] =
                           ReleaseCreatorUpdate(IF seen = -1 THEN NewCreatorWallet ELSE cw[c],
                                                req[p].amt)]
               /\ ctx' = Append(ctx, CreatorTx(c, "earning", req[p].amt,
                                               (IF seen = -1 THEN 0 ELSE seen) + req[p].amt,
                                               "completed", req[p].camp, "b1"))
               /\ bw' = req[p].wbw
               /\ btx' = btx \o req[p].ins
               /\ hist' = NoHist
               /\ req' = [req EXCEPT ![p] = Done("releaseEscrow", req[p].tx, "ok")]
    /\ UNCHANGED <<bank_accounts, pkgs, unlocked, nops>>

----------------------------------------------------------------------------
(* Withdrawal engine: every statement runs on the pool and commits on its own *)

\* requestWithdrawal, wallet UPDATE: balance - amount, pending_balance + amount
ReserveUpdate(w, amount) ==
    [w EXCEPT !.balance = @ - amount, !.pending_balance = @ + amount]

\* processWithdrawal, wallet UPDATE of the success branch
PayoutUpdate(w, amount) ==
    [w EXCEPT !.pending_balance = @ - amount, !.total_withdrawals = @ + amount]

\* processWithdrawal, wallet UPDATE of the failure branch
ReverseUpdate(w, amount) ==
    [w EXCEPT !.balance = @ + amount, !.pending_balance = @ - amount]

\* Math.abs
Abs(x) == IF x < 0 THEN -x ELSE x

\* requestWithdrawal up to the balance check: SELECT of the bank account (bank is
\* what the lookup by id and owner finds), SELECT of the wallet
requestWithdrawal_read(p, creator, amount, bank) ==
    /\ CanStart(p)
    /\ nops' = nops + 1
    /\ IF bank = "missing"
         THEN req' = [req EXCEPT ![p] = Done("requestWithdrawal", 0, "Bank account not found")]
         ELSE IF bank # "verified"
         THEN req' = [req EXCEPT ![p] = Done("requestWithdrawal", 0, "Bank account must be verified for withdrawals")]
         ELSE IF cw[creator] = NoRow
         THEN req' = [req EXCEPT ![p] = Done("requestWithdrawal", 0, "Wallet not found")]
         ELSE IF cw[creator].balance < amount
         THEN req' = [req EXCEPT ![p] = Done("requestWithdrawal", 0, "Insufficient balance")]
         ELSE req' = [req EXCEPT ![p] =
                        [Begin(p, "requestWithdrawal", "rw_insert", amount, creator, "-")
                           EXCEPT !.rd = cw[creator].balance]]
    /\ UNCHANGED <<bank_accounts, pkgs, bw, cw, btx, ctx, unlocked, hist>>

\* requestWithdrawal, createTransaction: INSERT of the pending withdrawal row
requestWithdrawal_insert(p) ==
    /\ req[p].pc = "rw_insert"
    /\ ctx' = Append(ctx, CreatorTx(req[p].cr, "withdrawal", -req[p].amt, Null,
                                    "pending", "bank", "-"))
    /\ req' = [req EXCEPT ![p].pc = "rw_update", ![p].tx = Len(ctx) + 1]
    /\ UNCHANGED <<bank_accounts, pkgs, bw, cw, btx, unlocked, hist, nops>>

\* requestWithdrawal, UPDATE of the wallet
requestWithdrawal_update(p) ==
    /\ req[p].pc = "rw_update"
    /\ cw' = [cw EXCEPT ![req[p].cr] = ReserveUpdate(@, req[p].amt)]
    /\ req' = [req EXCEPT ![p] = Done("requestWithdrawal", req[p].tx, "ok")]
    /\ UNCHANGED <<bank_accounts, pkgs, bw, btx, ctx, unlocked, hist, nops>>

\* processWithdrawal up to the status check: SELECT of the transaction by id
processWithdrawal_read(p, txid, success) ==
    /\ CanStart(p)
    /\ nops' = nops + 1
    /\ IF txid \notin 1..Len(ctx)
         THEN req' = [req EXCEPT ![p] = Done("processWithdrawal", txid, "Transaction not found")]
         ELSE IF ctx[txid].type # "withdrawal"
         THEN req' = [req EXCEPT ![p] = Done("processWithdrawal", txid, "Transaction is not a withdrawal")]
         ELSE IF ctx[txid].status # "pending" /\ ctx[txid].status # "processing"
         THEN req' = [req EXCEPT ![p] = Done("processWithdrawal", txid, "Transaction cannot be processed")]
         ELSE req' = [req EXCEPT ![p] =
                        [Begin(p, "processWithdrawal", "pw_status", Abs(ctx[txid].amount),
                               ctx[txid].user, "-")
                           EXCEPT !.tx = txid, !.flag = success]]
    /\ UNCHANGED <<bank_accounts, pkgs, bw, cw, btx, ctx, unlocked, hist>>

\* processWithdrawal, updateTransactionStatus: UPDATE of the row by id alone
processWithdrawal_status(p) ==
    /\ req[p].pc = "pw_status"
    /\ ctx' = [ctx EXCEPT ![req[p].tx].status = IF req[p].flag THEN "completed" ELSE "failed"]
    /\ req' = [req EXCEPT ![p].pc = "pw_wallet"]
    /\ UNCHANGED <<bank_accounts, pkgs, bw, cw, btx, unlocked, hist, nops>>

\* processWithdrawal, UPDATE of the wallet
processWithdrawal_wallet(p) ==
    /\ req[p].pc = "pw_wallet"
    /\ cw' = [cw EXCEPT ![req[p].cr] = IF req[p].flag THEN PayoutUpdate(@, req[p].amt)
                                       ELSE ReverseUpdate(@, req[p].amt)]
    /\ req' = [req EXCEPT ![p] = Done("processWithdrawal", req[p].tx, "ok")]
    /\ UNCHANGED <<bank_accounts, pkgs, bw, btx, ctx, unlocked, hist, nops>>

----------------------------------------------------------------------------
(* Recharge engine *)

\* the brand packages on sale
PackageIds ==
    {k \in DOMAIN Packages : Packages[k].is_active /\ Packages[k].user_type = "brand"}

\* package ids a caller may send: every row of the table and an id that is
\* not in it
PackageRequests == DOMAIN Packages \cup {"nopackage"}

\* getPackageById: the row by id with is_active = true, or none
getPackageById(packageId) ==
    IF packageId \in DOMAIN pkgs /\ pkgs[packageId].is_active
      THEN pkgs[packageId] ELSE NoRow

\* parseInt(x, 10) || 0 of a stored token count: a missing field gives 0
ParseTokens(x) == IF x = Null THEN 0 ELSE x

\* a lookup by id and order reference that does not filter on status
PendingLookup_anyStatus(txid, order) ==
    /\ txid \in 1..Len(btx)
    /\ btx[txid].order = order

\* the pending row with this id and order reference, as verifyRecharge and
\* verifyEscrowDeposit look it up (id, payment_gateway_id, status = 'pending')
PendingLookup(txid, order) ==
    /\ txid \in 1..Len(btx)
    /\ btx[txid].order = order
    /\ btx[txid].status = "pending"

\* the pending rows with this order reference, as handleWebhook looks them up
PendingByOrder(order) ==
    {i \in 1..Len(btx) : btx[i].order = order /\ btx[i].status = "pending"}

\* verifyRecharge, wallet UPDATE: token_balance is set to the value computed from
\* the balance read earlier, total_tokens_credited is incremented in place, the
\* package mapping changes for a subscription only
RechargeCredit(w, currentBalance, tokens, ptype, pname, packageId, validityDays) ==
    [w EXCEPT !.token_balance = currentBalance + tokens,
              !.total_tokens_credited = @ + tokens,
              !.current_package = IF ptype = "subscription" THEN pname ELSE @,
              !.current_package_id = IF ptype = "subscription" THEN packageId ELSE @,
              !.package_expires_at = IF ptype = "subscription"
                                       THEN ExpiresAt(validityDays) ELSE @]

\* handleWebhook, wallet UPDATE: as above, current_package always set
WebhookCredit(w, currentBalance, tokens, pname) ==
    [w EXCEPT !.token_balance = currentBalance + tokens,
              !.total_tokens_credited = @ + tokens,
              !.current_package = pname]

\* an initiateRecharge that creates the order and the pending row before it
\* looks at the price
initiateRecharge_orderFirst(p, pkg) ==
    /\ CanStart(p)
    /\ nops' = nops + 1
    /\ IF getPackageById(pkg) = NoRow
         THEN /\ req' = [req EXCEPT ![p] = Done("initiateRecharge", 0, "Package not found or inactive")]
              /\ btx' = btx
         ELSE IF pkgs[pkg].user_type # "brand"
         THEN /\ req' = [req EXCEPT ![p] = Done("initiateRecharge", 0, "Invalid package type")]
              /\ btx' = btx
         ELSE IF bw = NoRow
         THEN /\ req' = [req EXCEPT ![p] = Done("initiateRecharge", 0, "Brand wallet not found")]
              /\ btx' = btx
         ELSE /\ btx' = Append(btx, [BrandTx("token_credit", pkgs[pkg].price,
                                             bw.token_balance, "pending", Len(btx) + 1,
                                             ParseTokens(pkgs[pkg].tokens_included),
                                             pkgs[pkg].package_type, pkg, pkg, "-")
                                       EXCEPT !.validity = pkgs[pkg].validity_days])
              /\ req' = [req EXCEPT ![p] =
                           IF pkgs[pkg].price <= 0
                             THEN Done("initiateRecharge", 0, "This is a free package and cannot be purchased.")
                             ELSE Done("initiateRecharge", Len(btx) + 1, "ok")]
    /\ UNCHANGED <<bank_accounts, pkgs, bw, cw, ctx, unlocked, hist>>

\* initiateRecharge: package checks, wallet lookup, order creation, INSERT of the
\* pending token_credit row with the package snapshot
initiateRecharge(p, pkg) ==
    /\ CanStart(p)
    /\ nops' = nops + 1
    /\ IF getPackageById(pkg) = NoRow
         THEN /\ req' = [req EXCEPT ![p] = Done("initiateRecharge", 0, "Package not found or inactive")]
              /\ btx' = btx
         ELSE IF pkgs[pkg].user_type # "brand"
         THEN /\ req' = [req EXCEPT ![p] = Done("initiateRecharge", 0, "Invalid package type")]
              /\ btx' = btx
         ELSE IF pkgs[pkg].price <= 0
         THEN /\ req' = [req EXCEPT ![p] = Done("initiateRecharge", 0, "This is a free package and cannot be purchased.")]
              /\ btx' = btx
         ELSE IF bw = NoRow
         THEN /\ req' = [req EXCEPT ![p] = Done("initiateRecharge", 0, "Brand wallet not found")]
              /\ btx' = btx
         ELSE /\ btx' = Append(btx, [BrandTx("token_credit", pkgs[pkg].price,
                                             bw.token_balance, "pending", Len(btx) + 1,
                                             ParseTokens(pkgs[pkg].tokens_included),
                                             pkgs[pkg].package_type, pkg, pkg, "-")
                                       EXCEPT !.validity = pkgs[pkg].validity_days])
              /\ req' = [req EXCEPT ![p] = Done("initiateRecharge", Len(btx) + 1, "ok")]
    /\ UNCHANGED <<bank_accounts, pkgs, bw, cw, ctx, unlocked, hist>>

\* a verifyRecharge that looks the token count up in the packages table instead
\* of taking the count stored with the Transaction
verifyRecharge_lookup_catalog(p, txid, order, sigValid) ==
    /\ CanStart(p)
    /\ nops' = nops + 1
    /\ IF ~PendingLookup(txid, order)
         THEN req' = [req EXCEPT ![p] = Done("verifyRecharge", txid, "Transaction not found or already processed")]
         ELSE IF ~sigValid
         THEN req' = [req EXCEPT ![p] =
                        [Begin(p, "verifyRecharge", "vr_failwrite", 0, "-", "-")
                           EXCEPT !.tx = txid]]
         ELSE LET tokens == IF btx[txid].pname \in PackageIds
                            THEN ParseTokens(pkgs[btx[txid].pname].tokens_included)
                            ELSE 0
              IN IF tokens <= 0
                 THEN req' = [req EXCEPT ![p] = Done("verifyRecharge", txid, "Invalid token amount in transaction")]
                 ELSE req' = [req EXCEPT ![p] =
                                [Begin(p, "verifyRecharge", "vr_read", tokens, "-", "-")
                                   EXCEPT !.tx = txid]]
    /\ UNCHANGED <<bank_accounts, pkgs, bw, cw, btx, ctx, unlocked, hist>>

\* verifyRecharge up to the token check: pending lookup, signature check, parse of
\* the snapshot
verifyRecharge_lookup(p, txid, order, sigValid) ==
    /\ CanStart(p)
    /\ nops' = nops + 1
    /\ IF ~PendingLookup(txid, order)
         THEN req' = [req EXCEPT ![p] = Done("verifyRecharge", txid, "Transaction not found or already processed")]
         ELSE IF ~sigValid
         THEN req' = [req EXCEPT ![p] =
                        [Begin(p, "verifyRecharge", "vr_failwrite", 0, "-", "-")
                           EXCEPT !.tx = txid]]
         ELSE IF ParseTokens(btx[txid].tokens) <= 0
         THEN req' = [req EXCEPT ![p] = Done("verifyRecharge", txid, "Invalid token amount in transaction")]
         ELSE req' = [req EXCEPT ![p] =
                        [Begin(p, "verifyRecharge", "vr_read",
                               ParseTokens(btx[txid].tokens), "-", "-")
                           EXCEPT !.tx = txid]]
    /\ UNCHANGED <<bank_accounts, pkgs, bw, cw, btx, ctx, unlocked, hist>>

\* an invalid signature that is reported without marking the row failed
verifyRecharge_failwrite_skip(p) ==
    /\ req[p].pc = "vr_failwrite"
    /\ req' = [req EXCEPT ![p] = Done("verifyRecharge", req[p].tx, "Payment verification failed")]
    /\ UNCHANGED <<bank_accounts, pkgs, bw, cw, btx, ctx, unlocked, hist, nops>>

\* verifyRecharge, invalid signature: UPDATE of the row by id alone to failed
verifyRecharge_failwrite(p) ==
    /\ req[p].pc = "vr_failwrite"
    /\ btx' = [btx EXCEPT ![req[p].tx].status = "failed"]
    /\ req' = [req EXCEPT ![p] = Done("verifyRecharge", req[p].tx, "Payment verification failed")]
    /\ UNCHANGED <<bank_accounts, pkgs, bw, cw, ctx, unlocked, hist, nops>>

\* verifyRecharge, SELECT of the wallet inside the transaction (no lock)
verifyRecharge_read(p) ==
    /\ req[p].pc = "vr_read"
    /\ req' = [req EXCEPT ![p].pc = "vr_commit", ![p].rd = bw.token_balance]
    /\ UNCHANGED <<bank_accounts, pkgs, bw, cw, btx, ctx, unlocked, hist, nops>>

\* verifyRecharge from the wallet UPDATE to the commit: UPDATE of the wallet,
\* UPDATE of the row by id alone to completed with balance_after = newBalance
verifyRecharge_commit(p) ==
    /\ req[p].pc = "vr_commit"
    /\ ~BwLockedByOther(p)
    /\ LET t == btx[req[p].tx]
           newBalance == req[p].rd + req[p].amt
       IN /\ bw' = RechargeCredit(bw, req[p].rd, req[p].amt, t.ptype, t.pname,
                                  t.ref, t.validity)
          /\ btx' = [btx EXCEPT ![req[p].tx].status = "completed",
                                ![req[p].tx].balance_after = newBalance]
    /\ req' = [req EXCEPT ![p] = Done("verifyRecharge", req[p].tx, "ok")]
    /\ UNCHANGED <<bank_accounts, pkgs, cw, ctx, unlocked, hist, nops>>

\* handleWebhook(payment.captured) up to the lookup: HMAC check when
\* RAZORPAY_WEBHOOK_SECRET is set (secretSet), pending lookup by order reference
\* alone; hmacValid is whether the signature sent equals the HMAC of the payload
handleWebhook_lookup(p, order, hmacValid, secretSet) ==
    /\ CanStart(p)
    /\ nops' = nops + 1
    /\ IF secretSet /\ ~hmacValid
         THEN req' = [req EXCEPT ![p] = Done("handleWebhook", 0, "Invalid signature")]
         ELSE IF PendingByOrder(order) = {}
         THEN req' = [req EXCEPT ![p] = Done("handleWebhook", 0, "Transaction already processed")]
         ELSE LET txid == CHOOSE i \in PendingByOrder(order) : TRUE IN
              req' = [req EXCEPT ![p] =
                        [Begin(p, "handleWebhook", "wh_read",
                               ParseTokens(btx[txid].tokens), "-", "-")
                           EXCEPT !.tx = txid, !.flag = hmacValid]]
    /\ UNCHANGED <<bank_accounts, pkgs, bw, cw, btx, ctx, unlocked, hist>>

\* handleWebhook, SELECT of the wallet inside the transaction (no lock)
handleWebhook_read(p) ==
    /\ req[p].pc = "wh_read"
    /\ req' = [req EXCEPT ![p].pc = "wh_commit", ![p].rd = bw.token_balance]
    /\ UNCHANGED <<bank_accounts, pkgs, bw, cw, btx, ctx, unlocked, hist, nops>>

\* handleWebhook from the wallet UPDATE to the commit
handleWebhook_commit(p) ==
    /\ req[p].pc = "wh_commit"
    /\ ~BwLockedByOther(p)
    /\ LET t == btx[req[p].tx]
           newBalance == req[p].rd + req[p].amt
       IN /\ bw' = WebhookCredit(bw, req[p].rd, req[p].amt,
                                 IF t.pname = "-" THEN "unknown" ELSE t.pname)
          /\ btx' = [btx EXCEPT ![req[p].tx].status = "completed",
                                ![req[p].tx].balance_after = newBalance]
    /\ req' = [req EXCEPT ![p] = Done("handleWebhook", req[p].tx, "Payment processed successfully")]
    /\ UNCHANGED <<bank_accounts, pkgs, cw, ctx, unlocked, hist, nops>>

\* token counts an administrator may give a package
TokenCounts == {0, 3}

\* the packages table is edited (an administrator changes a package's
\* tokens_included) while requests come and go
editPackage(k, n) ==
    /\ Quiescent
    /\ nops < MaxSeqOps
    /\ nops' = nops + 1
    /\ pkgs[k].tokens_included # n
    /\ pkgs' = [pkgs EXCEPT ![k].tokens_included = n]
    /\ UNCHANGED <<bank_accounts, bw, cw, btx, ctx, unlocked, req, hist>>

----------------------------------------------------------------------------
(* Escrow engine: deposit *)

\* a deposit credit that increments escrow_on_hold in place of
\* total_escrow_deposited
DepositCredit_onHold(w, amount) ==
    [w EXCEPT !.escrow_balance = @ + amount, !.escrow_on_hold = @ + amount]

\* verifyEscrowDeposit, wallet UPDATE: increments in place
DepositCredit(w, amount) ==
    [w EXCEPT !.escrow_balance = @ + amount, !.total_escrow_deposited = @ + amount]

\* a deposit-initiate that orders the whole amount and not the shortfall
initiateEscrowDeposit_fullAmount(p, amount) ==
    /\ CanStart(p)
    /\ nops' = nops + 1
    /\ IF amount <= 0
         THEN /\ req' = [req EXCEPT ![p] = Done("initiateEscrowDeposit", 0, "Amount must be greater than 0")]
              /\ btx' = btx
         ELSE IF bw.escrow_balance >= amount
         THEN /\ req' = [req EXCEPT ![p] = Done("initiateEscrowDeposit", 0, "no payment required")]
              /\ btx' = btx
         ELSE /\ btx' = Append(btx, BrandTx("escrow_deposit", amount,
                                            bw.escrow_balance, "pending", Len(btx) + 1,
                                            Null, "-", "-", "-", "-"))
              /\ req' = [req EXCEPT ![p] = Done("initiateEscrowDeposit", Len(btx) + 1, "ok")]
    /\ UNCHANGED <<bank_accounts, pkgs, bw, cw, ctx, unlocked, hist>>

\* initiateEscrowDeposit: wallet SELECT, short-circuit when the balance covers the
\* amount, else order for the shortfall and INSERT of the pending row
initiateEscrowDeposit(p, amount) ==
    /\ CanStart(p)
    /\ nops' = nops + 1
    /\ IF amount <= 0
         THEN /\ req' = [req EXCEPT ![p] = Done("initiateEscrowDeposit", 0, "Amount must be greater than 0")]
              /\ btx' = btx
         ELSE IF bw.escrow_balance >= amount
         THEN /\ req' = [req EXCEPT ![p] = Done("initiateEscrowDeposit", 0, "no payment required")]
              /\ btx' = btx
         ELSE /\ btx' = Append(btx, BrandTx("escrow_deposit", amount - bw.escrow_balance,
                                            bw.escrow_balance, "pending", Len(btx) + 1,
                                            Null, "-", "-", "-", "-"))
              /\ req' = [req EXCEPT ![p] = Done("initiateEscrowDeposit", Len(btx) + 1, "ok")]
    /\ UNCHANGED <<bank_accounts, pkgs, bw, cw, ctx, unlocked, hist>>

\* verifyEscrowDeposit up to the credit: pending lookup, signature check
verifyEscrowDeposit_lookup(p, txid, order, sigValid) ==
    /\ CanStart(p)
    /\ nops' = nops + 1
    /\ IF ~PendingLookup(txid, order)
         THEN req' = [req EXCEPT ![p] = Done("verifyEscrowDeposit", txid, "Transaction not found or already processed")]
         ELSE req' = [req EXCEPT ![p] =
                        [Begin(p, "verifyEscrowDeposit",
                               IF sigValid THEN "ved_commit" ELSE "ved_failwrite",
                               btx[txid].amount, "-", "-")
                           EXCEPT !.tx = txid]]
    /\ UNCHANGED <<bank_accounts, pkgs, bw, cw, btx, ctx, unlocked, hist>>

\* verifyEscrowDeposit, invalid signature: UPDATE of the row by id alone to failed
verifyEscrowDeposit_failwrite(p) ==
    /\ req[p].pc = "ved_failwrite"
    /\ btx' = [btx EXCEPT ![req[p].tx].status = "failed"]
    /\ req' = [req EXCEPT ![p] = Done("verifyEscrowDeposit", req[p].tx, "Payment verification failed")]
    /\ UNCHANGED <<bank_accounts, pkgs, bw, cw, ctx, unlocked, hist, nops>>

\* a deposit-verify that writes the balance from the snapshot kept in the
\* pending row
verifyEscrowDeposit_commit_snapshot(p) ==
    /\ req[p].pc = "ved_commit"
    /\ ~BwLockedByOther(p)
    /\ LET wallet == [bw EXCEPT !.escrow_balance = btx[req[p].tx].balance_after + req[p].amt,
                                !.total_escrow_deposited = @ + req[p].amt] IN
        /\ bw' = wallet
        /\ btx' = [btx EXCEPT ![req[p].tx].status = "completed",
                              ![req[p].tx].balance_after = wallet.escrow_balance]
    /\ hist' = NoHist
    /\ req' = [req EXCEPT ![p] = Done("verifyEscrowDeposit", req[p].tx, "ok")]
    /\ UNCHANGED <<bank_accounts, pkgs, cw, ctx, unlocked, nops>>

\* verifyEscrowDeposit from the wallet UPDATE to the commit
verifyEscrowDeposit_commit(p) ==
    /\ req[p].pc = "ved_commit"
    /\ ~BwLockedByOther(p)
    /\ LET wallet == DepositCredit(bw, req[p].amt) IN
        /\ bw' = wallet
        /\ btx' = [btx EXCEPT ![req[p].tx].status = "completed",
                              ![req[p].tx].balance_after = wallet.escrow_balance]
    /\ hist' = NoHist
    /\ req' = [req EXCEPT ![p] = Done("verifyEscrowDeposit", req[p].tx, "ok")]
    /\ UNCHANGED <<bank_accounts, pkgs, cw, ctx, unlocked, nops>>

----------------------------------------------------------------------------
(* Creator unlock *)

\* the ce_users rows an unlock may name: the creator with a wallet and two more
Users == Creators \cup {"c2", "c3"}

\* rows of brand_unlocked_creators for the creator
UnlockRows(c) == {i \in 1..Len(unlocked) : unlocked[i] = c}

\* brand_unlocked_creators has one row per (brand_id, creator_id): an INSERT
\* for a pair that has a committed row fails with a unique violation
UnlockUniqueViolation(creators) == \E c \in creators : UnlockRows(c) # {}

\* getOrCreateBrandWallet, step 4: the wallet's active package, "none" if there
\* is none in the catalog
ActivePackage(w) ==
    IF w.current_package \in PackageIds THEN w.current_package ELSE "none"

\* parseFloat(report_token_cost) || 5
ReportTokenCost(pkg) ==
    IF pkgs[pkg].report_token_cost = 0 THEN 5 ELSE pkgs[pkg].report_token_cost

\* unlockCreator, wallet UPDATE: token_balance is set to the value computed from
\* the balance read earlier, total_tokens_debited is incremented in place
UnlockDebit(w, tokenBalance, cost) ==
    [w EXCEPT !.token_balance = tokenBalance - cost, !.total_tokens_debited = @ + cost]

\* an unlockCreator that does not look for an existing unlock record
unlockCreator_read_unchecked(p, creator) ==
    /\ CanStart(p)
    /\ nops' = nops + 1
    /\ IF ActivePackage(bw) = "none"
         THEN req' = [req EXCEPT ![p] = Done("unlockCreator", 0, "No active package found for brand")]
         ELSE IF creator \notin Users
         THEN req' = [req EXCEPT ![p] = Done("unlockCreator", 0, "Creator not found")]
         ELSE IF bw.token_balance < ReportTokenCost(ActivePackage(bw))
         THEN req' = [req EXCEPT ![p] = Done("unlockCreator", 0, "Insufficient token balance")]
         ELSE req' = [req EXCEPT ![p] =
                        [Begin(p, "unlockCreator", "ul_commit",
                               ReportTokenCost(ActivePackage(bw)), creator, "-")
                           EXCEPT !.rd = bw.token_balance]]
    /\ UNCHANGED <<bank_accounts, pkgs, bw, cw, btx, ctx, unlocked, hist>>

\* unlockCreator up to the balance check: wallet and package read through
\* getOrCreateBrandWallet, already-unlocked check, creator lookup, balance check
unlockCreator_read(p, creator) ==
    /\ CanStart(p)
    /\ nops' = nops + 1
    /\ IF ActivePackage(bw) = "none"
         THEN req' = [req EXCEPT ![p] = Done("unlockCreator", 0, "No active package found for brand")]
         ELSE IF UnlockRows(creator) # {}
         THEN req' = [req EXCEPT ![p] = Done("unlockCreator", 0, "Creator profile is already unlocked")]
         ELSE IF creator \notin Users
         THEN req' = [req EXCEPT ![p] = Done("unlockCreator", 0, "Creator not found")]
         ELSE IF bw.token_balance < ReportTokenCost(ActivePackage(bw))
         THEN req' = [req EXCEPT ![p] = Done("unlockCreator", 0, "Insufficient token balance")]
         ELSE req' = [req EXCEPT ![p] =
                        [Begin(p, "unlockCreator", "ul_commit",
                               ReportTokenCost(ActivePackage(bw)), creator, "-")
                           EXCEPT !.rd = bw.token_balance]]
    /\ UNCHANGED <<bank_accounts, pkgs, bw, cw, btx, ctx, unlocked, hist>>

\* an unlockCreator whose INSERT of the unlock record is not held to one row
\* per pair
unlockCreator_commit_noUnique(p) ==
    /\ req[p].pc = "ul_commit"
    /\ ~BwLockedByOther(p)
    /\ LET newTokenBalance == req[p].rd - req[p].amt IN
        /\ bw' = UnlockDebit(bw, req[p].rd, req[p].amt)
        /\ btx' = Append(btx, BrandTx("creator_unlock", req[p].amt, newTokenBalance,
                                      "completed", 0, Null, "-", "-", req[p].cr, "-"))
    /\ unlocked' = Append(unlocked, req[p].cr)
    /\ req' = [req EXCEPT ![p] = Done("unlockCreator", req[p].tx, "ok")]
    /\ UNCHANGED <<bank_accounts, pkgs, cw, ctx, hist, nops>>

\* unlockCreator from the wallet UPDATE to the commit: UPDATE of the wallet,
\* INSERT of the creator_unlock row and of the unlock record; a unique
\* violation on the unlock record goes to the catch, which rolls all three back
unlockCreator_commit(p) ==
    /\ req[p].pc = "ul_commit"
    /\ ~BwLockedByOther(p)
    /\ IF UnlockUniqueViolation({req[p].cr})
         THEN /\ req' = [req EXCEPT ![p] = Done("unlockCreator", req[p].tx, "duplicate key value violates unique constraint")]
              /\ UNCHANGED <<bw, btx, unlocked>>
         ELSE /\ LET newTokenBalance == req[p].rd - req[p].amt IN
                   /\ bw' = UnlockDebit(bw, req[p].rd, req[p].amt)
                   /\ btx' = Append(btx, BrandTx("creator_unlock", req[p].amt, newTokenBalance,
                                                 "completed", 0, Null, "-", "-", req[p].cr, "-"))
              /\ unlocked' = Append(unlocked, req[p].cr)
              /\ req' = [req EXCEPT ![p] = Done("unlockCreator", req[p].tx, "ok")]
    /\ UNCHANGED <<bank_accounts, pkgs, cw, ctx, hist, nops>>

\* [...new Set(creator_ids)]: the ids in order of first appearance
RECURSIVE Dedup(_)
Dedup(ids) ==
    IF ids = <<>> THEN <<>>
    ELSE LET rest == Dedup(SubSeq(ids, 1, Len(ids) - 1))
             last == ids[Len(ids)]
         IN IF \E i \in 1..Len(rest) : rest[i] = last THEN rest ELSE Append(rest, last)

\* bulkUnlockCreators, the loop over the ids: a creator already unlocked is
\* skipped, one that does not exist or that the running balance cannot pay
\* for fails, every other one lowers the running balance by the cost and gets
\* a creator_unlock row with the running balance as balance_after
RECURSIVE BulkUnlockRows(_, _, _, _)
BulkUnlockRows(ids, tokenBalance, reportTokenCost, alreadyUnlockedSet) ==
    IF ids = <<>> THEN <<>>
    ELSE LET creatorId == Head(ids) IN
         IF \/ creatorId \in alreadyUnlockedSet
            \/ creatorId \notin Users
            \/ tokenBalance < reportTokenCost
           THEN BulkUnlockRows(Tail(ids), tokenBalance, reportTokenCost, alreadyUnlockedSet)
           ELSE <<BrandTx("creator_unlock", reportTokenCost, tokenBalance - reportTokenCost,
                          "completed", 0, Null, "-", "-", creatorId, "-")>>
                \o BulkUnlockRows(Tail(ids), tokenBalance - reportTokenCost,
                                  reportTokenCost, alreadyUnlockedSet)

\* bulkUnlockCreators up to the end of the loop: wallet and package read through
\* getOrCreateBrandWallet, SELECT of the unlock records and of the users, the
\* loop; the rows it inserts stay in the transaction until the commit
bulkUnlockCreators_read(p, creator_ids) ==
    /\ CanStart(p)
    /\ nops' = nops + 1
    /\ IF ActivePackage(bw) = "none"
         THEN req' = [req EXCEPT ![p] = Done("bulkUnlockCreators", 0, "No active package found for brand")]
         ELSE LET reportTokenCost == ReportTokenCost(ActivePackage(bw))
                  alreadyUnlockedSet == {c \in Users : UnlockRows(c) # {}}
              IN req' = [req EXCEPT ![p] =
                           [Begin(p, "bulkUnlockCreators", "bu_commit", reportTokenCost, "-", "-")
                              EXCEPT !.rd = bw.token_balance,
                                     !.ins = BulkUnlockRows(Dedup(creator_ids), bw.token_balance,
                                                            reportTokenCost, alreadyUnlockedSet)]]
    /\ UNCHANGED <<bank_accounts, pkgs, bw, cw, btx, ctx, unlocked, hist>>

\* a bulk unlock that charges the cost once, however many creators it unlocked
bulkUnlockCreators_commit_oneCharge(p) ==
    /\ req[p].pc = "bu_commit"
    /\ Len(req[p].ins) > 0 => ~BwLockedByOther(p)
    /\ LET rows == req[p].ins
           total_unlocked == Len(rows)
           total_tokens_spent == req[p].amt * total_unlocked
       IN IF UnlockUniqueViolation({rows[i].ref : i \in 1..Len(rows)})
            THEN /\ req' = [req EXCEPT ![p] = Done("bulkUnlockCreators", 0, "duplicate key value violates unique constraint")]
                 /\ UNCHANGED <<bw, btx, unlocked>>
            ELSE /\ bw' = IF total_unlocked > 0
                            THEN UnlockDebit(bw, req[p].rd, req[p].amt)
                            ELSE bw
                 /\ btx' = btx \o rows
                 /\ unlocked' = unlocked \o [i \in 1..Len(rows) |-> rows[i].ref]
                 /\ req' = [req EXCEPT ![p] =
                              [Done("bulkUnlockCreators", total_unlocked, "ok")
                                 EXCEPT !.amt = total_tokens_spent,
                                        !.rd = req[p].rd - total_tokens_spent]]
    /\ UNCHANGED <<bank_accounts, pkgs, cw, ctx, hist, nops>>

\* bulkUnlockCreators from the first INSERT to the commit: the creator_unlock
\* rows and unlock records, then the wallet UPDATE when anything was unlocked;
\* a unique violation on an unlock record rolls everything back
bulkUnlockCreators_commit(p) ==
    /\ req[p].pc = "bu_commit"
    /\ Len(req[p].ins) > 0 => ~BwLockedByOther(p)
    /\ LET rows == req[p].ins
           total_unlocked == Len(rows)
           total_tokens_spent == req[p].amt * total_unlocked
       IN IF UnlockUniqueViolation({rows[i].ref : i \in 1..Len(rows)})
            THEN /\ req' = [req EXCEPT ![p] = Done("bulkUnlockCreators", 0, "duplicate key value violates unique constraint")]
                 /\ UNCHANGED <<bw, btx, unlocked>>
            ELSE /\ bw' = IF total_unlocked > 0
                            THEN UnlockDebit(bw, req[p].rd, total_tokens_spent)
                            ELSE bw
                 /\ btx' = btx \o rows
                 /\ unlocked' = unlocked \o [i \in 1..Len(rows) |-> rows[i].ref]
                 /\ req' = [req EXCEPT ![p] =
                              [Done("bulkUnlockCreators", total_unlocked, "ok")
                                 EXCEPT !.amt = total_tokens_spent,
                                        !.rd = req[p].rd - total_tokens_spent]]
    /\ UNCHANGED <<bank_accounts, pkgs, cw, ctx, hist, nops>>

\* lists of creator ids a bulk request may carry: with a repeated id, with an
\* id of no user, in either order, and longer than the balance pays for
CreatorLists ==
    {<<"c1">>, <<"c1", "c2">>, <<"c2", "c1">>, <<"c2", "c2", "c3">>,
     <<"c1", "c2", "c3">>, <<"nouser", "c3">>}

\* concurrent unlock requests, single and bulk
NextUnlock ==
    \E p \in Procs :
        \/ \E c \in Users \cup {"nouser"} : unlockCreator_read(p, c)
        \/ unlockCreator_commit(p)
        \/ \E ids \in CreatorLists : bulkUnlockCreators_read(p, ids)
        \/ bulkUnlockCreators_commit(p)

SpecUnlock == Init /\ [][NextUnlock]_vars

----------------------------------------------------------------------------
(* Specifications *)

\* concurrent hold / release / refund requests on a funded wallet
NextEscrow ==
    \E p \in Procs :
        \/ \E a \in Amounts, k \in Campaigns : holdEscrow_read(p, a, k)
        \/ holdEscrow_commit(p)
        \/ \E a \in Amounts, k \in Campaigns : refundEscrow_read(p, a, k)
        \/ refundEscrow_commit(p)
        \/ \E a \in Amounts, k \in Campaigns, c \in Creators : releaseEscrow_read(p, a, k, c)
        \/ releaseEscrow_brand(p)
        \/ releaseEscrow_cread(p)
        \/ releaseEscrow_credit(p)
        \/ Crash(p)

SpecEscrow == InitEscrow /\ [][NextEscrow]_vars

BankStates == {"verified", "pending", "missing"}

\* concurrent withdrawal requests and admin settlements
NextWithdraw ==
    \E p \in Procs :
        \/ \E c \in Creators, a \in Amounts, b \in BankStates : requestWithdrawal_read(p, c, a, b)
        \/ requestWithdrawal_insert(p)
        \/ requestWithdrawal_update(p)
        \/ \E t \in 1..Len(ctx), ok \in BOOLEAN : processWithdrawal_read(p, t, ok)
        \/ processWithdrawal_status(p)
        \/ processWithdrawal_wallet(p)

SpecWithdraw == InitWithdraw /\ [][NextWithdraw]_vars

\* order references a caller may present: those issued so far
Orders == {btx[i].order : i \in 1..Len(btx)} \ {0}

\* the first statement of a recharge or deposit request
PaymentStart(p) ==
    \/ \E k \in PackageRequests : initiateRecharge(p, k)
    \/ \E t \in 1..Len(btx), o \in Orders, sig \in BOOLEAN : verifyRecharge_lookup(p, t, o, sig)
    \/ \E a \in AnyAmounts : initiateEscrowDeposit(p, a)
    \/ \E t \in 1..Len(btx), o \in Orders, sig \in BOOLEAN :
          verifyEscrowDeposit_lookup(p, t, o, sig)

\* the later statements of a recharge or deposit request
PaymentStep(p) ==
    \/ verifyRecharge_failwrite(p)
    \/ verifyRecharge_read(p)
    \/ verifyRecharge_commit(p)
    \/ verifyEscrowDeposit_failwrite(p)
    \/ verifyEscrowDeposit_commit(p)

\* the first statement of an escrow, unlock or withdrawal request
EngineStart(p) ==
    \/ \E a \in AnyAmounts, k \in Campaigns : holdEscrow_read(p, a, k)
    \/ \E a \in AnyAmounts, k \in Campaigns : refundEscrow_read(p, a, k)
    \/ \E a \in AnyAmounts, k \in Campaigns, c \in Creators : releaseEscrow_read(p, a, k, c)
    \/ \E c \in Creators : unlockCreator_read(p, c)
    \/ \E c \in Creators, a \in AnyAmounts, b \in BankStates : requestWithdrawal_read(p, c, a, b)
    \/ \E t \in 1..Len(ctx), ok \in BOOLEAN : processWithdrawal_read(p, t, ok)
    \/ \E o \in Orders, sig \in BOOLEAN, sec \in BOOLEAN :
                      handleWebhook_lookup(p, o, sig, sec)

\* the later statements of an escrow, unlock or withdrawal request
EngineStep(p) ==
    \/ holdEscrow_commit(p)
    \/ refundEscrow_commit(p)
    \/ releaseEscrow_brand(p)
    \/ releaseEscrow_cread(p)
    \/ releaseEscrow_credit(p)
    \/ unlockCreator_commit(p)
    \/ requestWithdrawal_insert(p)
    \/ requestWithdrawal_update(p)
    \/ processWithdrawal_status(p)
    \/ processWithdrawal_wallet(p)
    \/ handleWebhook_read(p)
    \/ handleWebhook_commit(p)

\* every engine operation, one request at a time by a single caller, each
\* running to its end
NextSeq ==
    \E p \in {"p1"} :
        \/ Quiescent /\ nops < MaxSeqOps /\ (PaymentStart(p) \/ EngineStart(p))
        \/ PaymentStep(p)
        \/ EngineStep(p)

SpecSeq == (Init \/ InitEscrow \/ InitWithdraw) /\ [][NextSeq]_vars

\* a brand with no wallet row yet
InitWallet ==
    /\ bw = NoRow
    /\ btx = <<>>
    /\ InitCommon

\* concurrent first accesses to the brand's wallet, crashes included, and
\* unlocks once the wallet is there
NextWallet ==
    \E p \in Procs :
        \/ getOrCreateBrandWallet_read(p)
        \/ getOrCreateBrandWallet_insert(p)
        \/ getOrCreateBrandWallet_commit(p)
        \/ getOrCreateBrandWallet_refetch(p)
        \/ bw # NoRow /\ \E c \in Creators : unlockCreator_read(p, c)
        \/ unlockCreator_commit(p)
        \/ Crash(p)

SpecWallet == InitWallet /\ [][NextWallet]_vars

\* purchases by a single caller, one request at a time, with the packages table
\* edited between requests
NextPurchase ==
    \/ \E k \in PackageIds, n \in TokenCounts : editPackage(k, n)
    \/ \E p \in {"p1"} :
          \/ /\ Quiescent
             /\ nops < MaxSeqOps
             /\ \/ \E k \in PackageRequests : initiateRecharge(p, k)
                \/ \E t \in 1..Len(btx), o \in Orders, sig \in BOOLEAN :
                      verifyRecharge_lookup(p, t, o, sig)
                \/ \E o \in Orders, sig \in BOOLEAN, sec \in BOOLEAN :
                      handleWebhook_lookup(p, o, sig, sec)
                \/ \E c \in Creators : unlockCreator_read(p, c)
          \/ verifyRecharge_failwrite(p)
          \/ verifyRecharge_read(p)
          \/ verifyRecharge_commit(p)
          \/ handleWebhook_read(p)
          \/ handleWebhook_commit(p)
          \/ unlockCreator_commit(p)

SpecPurchase == Init /\ [][NextPurchase]_vars

\* concurrent recharge requests: initiate, verify and the payment.captured webhook
NextRecharge ==
    \E p \in Procs :
        \/ \E k \in PackageRequests : initiateRecharge(p, k)
        \/ \E t \in 1..Len(btx), o \in Orders, sig \in BOOLEAN : verifyRecharge_lookup(p, t, o, sig)
        \/ verifyRecharge_failwrite(p)
        \/ verifyRecharge_read(p)
        \/ verifyRecharge_commit(p)
        \/ \E o \in Orders, sig \in BOOLEAN, sec \in BOOLEAN :
                      handleWebhook_lookup(p, o, sig, sec)
        \/ handleWebhook_read(p)
        \/ handleWebhook_commit(p)

SpecRecharge == Init /\ [][NextRecharge]_vars

----------------------------------------------------------------------------
(* Derived quantities *)

RECURSIVE SumTo(_, _)
\* sum of f[1..n]
SumTo(f, n) == IF n = 0 THEN 0 ELSE f[n] + SumTo(f, n - 1)

\* total amount of the brand_transactions rows of a type
BrandAmount(type) ==
    SumTo([i \in 1..Len(btx) |-> IF btx[i].type = type THEN btx[i].amount ELSE 0], Len(btx))

\* total amount of the creator-side rows of a type
CreatorAmount(type) ==
    SumTo([i \in 1..Len(ctx) |-> IF ctx[i].type = type THEN ctx[i].amount ELSE 0], Len(ctx))

RECURSIVE SumOver(_, _)
SumOver(f, S) == IF S = {} THEN 0
                 ELSE LET x == CHOOSE y \in S : TRUE IN f[x] + SumOver(f, S \ {x})

\* total_earnings over all creator wallets
TotalEarnings ==
    SumOver([c \in Creators |-> IF cw[c] = NoRow THEN 0 ELSE cw[c].total_earnings], Creators)

\* the step is the commit of p's request at position pc
Committed(p, pc) == req[p].pc = pc /\ req'[p].pc = "idle" /\ req'[p].res = "ok"

----------------------------------------------------------------------------
(* Claims on the escrow engine *)

\* C2: a successful releaseEscrow takes exactly the amount from the brand's
\* escrow_on_hold, adds it to total_escrow_released, the creator's balance and
\* total_earnings, leaves escrow_balance alone and writes exactly one
\* escrow_release row and one creator-side row of that amount, each naming the
\* other party.
ConservationUnderRelease ==
    [][\A p \in Procs : Committed(p, "rel_credit") =>
          LET a == req[p].amt
              c == req[p].cr
              before == IF cw[c] = NoRow THEN NewCreatorWallet ELSE cw[c]
          IN /\ bw'.escrow_on_hold = bw.escrow_on_hold - a
             /\ bw'.total_escrow_released = bw.total_escrow_released + a
             /\ bw'.escrow_balance = bw.escrow_balance
             /\ cw'[c].balance = before.balance + a
             /\ cw'[c].total_earnings = before.total_earnings + a
             /\ Len(btx') = Len(btx) + 1
             /\ Len(ctx') = Len(ctx) + 1
             /\ SubSeq(btx', 1, Len(btx)) = btx
             /\ SubSeq(ctx', 1, Len(ctx)) = ctx
             /\ btx'[Len(btx')].type = "escrow_release"
             /\ btx'[Len(btx')].amount = a
             /\ btx'[Len(btx')].other = c
             /\ ctx'[Len(ctx')].user = c
             /\ ctx'[Len(ctx')].amount = a
             /\ ctx'[Len(ctx')].other = "b1"]_vars

\* a release has been committed
ReleaseHappened ==
    /\ Len(ctx) > 0
    /\ bw.total_escrow_released > 0
    /\ \E i \in 1..Len(btx) : btx[i].type = "escrow_release"

\* C4: a refund of the amount just held for the same campaign puts escrow_balance
\* and escrow_on_hold back to their values before the hold.
HoldRefundRoundTrip ==
    [][\A p \in Procs :
          (/\ Committed(p, "refund_update")
           /\ hist.kind = "hold"
           /\ hist.amt = req[p].amt
           /\ hist.camp = req[p].camp)
          => /\ bw'.escrow_balance = hist.eb
             /\ bw'.escrow_on_hold = hist.oh]_vars

\* the last two escrow rows are a hold and the refund of the same amount and campaign
RefundAfterHold ==
    /\ Len(btx) >= 2
    /\ btx[Len(btx)].type = "escrow_refund"
    /\ btx[Len(btx) - 1].type = "escrow_hold"
    /\ btx[Len(btx)].amount = btx[Len(btx) - 1].amount
    /\ btx[Len(btx)].ref = btx[Len(btx) - 1].ref
    /\ hist = NoHist

\* C6: the precondition holds when the decrement is applied: a hold commits only
\* when its amount fits escrow_balance, a release or refund only when its amount
\* fits escrow_on_hold, so neither field goes below zero.
NoDoubleSpend ==
    [][\A p \in Procs :
          /\ Committed(p, "hold_update") => bw.escrow_balance >= req[p].amt
          /\ Committed(p, "refund_update") => bw.escrow_on_hold >= req[p].amt
          /\ Committed(p, "rel_credit") => bw.escrow_on_hold >= req[p].amt]_vars

\* C9: in every state, crashes included, what releases have taken from the
\* brand's escrow_on_hold is what creators have been credited, and the
\* escrow_release rows match the creator-side rows.
ReleaseAllOrNothing ==
    /\ bw.total_escrow_released = TotalEarnings
    /\ BrandAmount("escrow_hold") - BrandAmount("escrow_refund") - bw.escrow_on_hold
         = TotalEarnings
    /\ BrandAmount("escrow_release") = bw.total_escrow_released
    /\ CreatorAmount("earning") = TotalEarnings
    /\ Cardinality({i \in 1..Len(btx) : btx[i].type = "escrow_release"})
         = Cardinality({i \in 1..Len(ctx) : ctx[i].type = "earning"})

\* a release is past its brand-side write and has not committed
ReleaseInFlight ==
    \E p \in Procs :
        /\ req[p].pc \in {"rel_cread", "rel_credit"}
        /\ req[p].wbw # NoRow
        /\ req[p].wbw.escrow_on_hold < bw.escrow_on_hold

----------------------------------------------------------------------------
(* Claims on the withdrawal engine *)

\* total of |amount| over creator c's withdrawal rows whose status is in S
WithdrawalAmount(c, S) ==
    SumTo([i \in 1..Len(ctx) |->
             IF ctx[i].user = c /\ ctx[i].type = "withdrawal" /\ ctx[i].status \in S
             THEN Abs(ctx[i].amount) ELSE 0], Len(ctx))

\* C7: a withdrawal is reserved only against funds that are there when the
\* balance is decremented, so two requests never reserve the same funds and
\* balance stays >= 0.
NoDoubleReservation ==
    [][\A p \in Procs :
          Committed(p, "rw_update") => cw[req[p].cr].balance >= req[p].amt]_vars

\* C10: once no request is running, every withdrawal has had its wallet effect
\* exactly once: pending_balance is what the unsettled withdrawals reserve and
\* total_withdrawals is what the completed ones paid out.
WithdrawalResolvedOnce ==
    Quiescent =>
        \A c \in Creators : cw[c] # NoRow =>
            /\ cw[c].pending_balance = WithdrawalAmount(c, {"pending", "processing"})
            /\ cw[c].total_withdrawals = WithdrawalAmount(c, {"completed"})

----------------------------------------------------------------------------
(* Claims on verification and unlock *)

NotFound == "Transaction not found or already processed"

\* C3: a verify call (verifyRecharge or verifyEscrowDeposit, valid signature) that
\* follows the one that completed the Transaction fails with 'Transaction not
\* found or already processed' and changes neither wallet nor Transaction, and a
\* verify credits only as it takes the Transaction from pending to completed:
\* in sequence, each Transaction is credited once.
IdempotentVerify ==
    [][\A p \in Procs :
          /\ \A t \in 1..Len(btx), o \in Orders :
                (/\ btx[t].status = "completed"
                 /\ req'[p].op \in {"verifyRecharge", "verifyEscrowDeposit"}
                 /\ \/ verifyRecharge_lookup(p, t, o, TRUE)
                    \/ verifyEscrowDeposit_lookup(p, t, o, TRUE))
                => /\ req'[p].res = NotFound
                   /\ IsIdle(p)'
                   /\ UNCHANGED <<bw, btx, cw, ctx>>
          /\ (Committed(p, "vr_commit") \/ Committed(p, "ved_commit"))
                => /\ btx[req[p].tx].status = "pending"
                   /\ btx'[req[p].tx].status = "completed"
                   /\ bw' # bw]_vars

\* a purchase was verified and a second verifyRecharge for it was turned down
SecondVerifyRejected ==
    /\ Len(btx) = 2
    /\ btx[2].type = "token_credit"
    /\ btx[2].status = "completed"
    /\ bw.token_balance = Packages.free.tokens_included + btx[2].tokens
    /\ \E p \in Procs :
          /\ req[p].op = "verifyRecharge"
          /\ req[p].tx = 2
          /\ req[p].res = NotFound

VerifyWebhookCreditOnce ==
    [][\A p \in Procs :
          (Committed(p, "vr_commit")
             \/ (req[p].pc = "wh_commit" /\ req'[p].res = "Payment processed successfully"))
          => btx[req[p].tx].status = "pending"]_vars

\* C1: every balance field of every wallet is >= 0.
NonNegativity ==
    /\ bw.token_balance >= 0
    /\ bw.escrow_balance >= 0
    /\ bw.escrow_on_hold >= 0
    /\ \A c \in Creators : cw[c] # NoRow =>
          cw[c].balance >= 0 /\ cw[c].pending_balance >= 0

----------------------------------------------------------------------------
(* Claims on transaction records *)

\* C11: a Transaction whose status is completed or failed keeps its status and
\* its balance_after in every later step.
TerminalStatusFinal ==
    [][/\ \A i \in 1..Len(btx) :
             btx[i].status \in {"completed", "failed"}
             => /\ btx'[i].status = btx[i].status
                /\ btx'[i].balance_after = btx[i].balance_after
       /\ \A i \in 1..Len(ctx) :
             ctx[i].status \in {"completed", "failed"}
             => /\ ctx'[i].status = ctx[i].status
                /\ ctx'[i].balance_after = ctx[i].balance_after]_vars

\* C12: requestWithdrawal(a) takes a from balance into pending_balance and leaves
\* a pending Transaction; processWithdrawal(success = false) of that Transaction
\* gives the reserved amount back (balance and pending_balance return to their
\* values before the request), leaves total_withdrawals alone and marks the
\* Transaction failed.
WithdrawalReversal ==
    [][\A p \in Procs :
          /\ Committed(p, "rw_update")
                => LET c == req[p].cr IN
                   /\ cw'[c].balance = cw[c].balance - req[p].amt
                   /\ cw'[c].pending_balance = cw[c].pending_balance + req[p].amt
                   /\ ctx[req[p].tx].status = "pending"
          /\ (Committed(p, "pw_wallet") /\ ~req[p].flag)
                => LET c == req[p].cr
                       reserved == -ctx[req[p].tx].amount
                   IN /\ cw'[c].balance = cw[c].balance + reserved
                      /\ cw'[c].pending_balance = cw[c].pending_balance - reserved
                      /\ cw'[c].total_withdrawals = cw[c].total_withdrawals
                      /\ ctx'[req[p].tx].status = "failed"]_vars

\* C13: a holdEscrow whose amount exceeds the escrow_balance it reads fails with
\* the insufficient-escrow error, without touching the wallet and without
\* writing a Transaction.
HoldInsufficientRejected ==
    [][\A p \in Procs, a \in AnyAmounts, k \in Campaigns :
          (a > bw.escrow_balance /\ holdEscrow_read(p, a, k))
          => /\ req'[p].res = "Insufficient escrow balance"
             /\ IsIdle(p)'
             /\ UNCHANGED <<bw, btx, cw, ctx>>]_vars

\* a holdEscrow was turned down for lack of escrow_balance and nothing was held
HoldWasRejected ==
    /\ bw.escrow_on_hold = 0
    /\ \A i \in 1..Len(btx) : btx[i].type # "escrow_hold"
    /\ \E p \in Procs :
          /\ req[p].op = "holdEscrow"
          /\ req[p].res = "Insufficient escrow balance"

----------------------------------------------------------------------------
(* Claims on recharge *)

\* C14: an accepted initiateRecharge stores the package's tokens_included (n) in
\* the pending Transaction; verifyRecharge with a valid signature then raises
\* token_balance by exactly that stored n, whatever the packages table says by
\* then, inserts no row and leaves the Transaction completed with balance_after
\* equal to the new token_balance.
RechargeCreditsSnapshot ==
    [][\A p \in Procs :
          /\ \A k \in PackageIds :
                (initiateRecharge(p, k) /\ req'[p].res = "ok")
                => /\ Len(btx') = Len(btx) + 1
                   /\ btx'[Len(btx')].status = "pending"
                   /\ btx'[Len(btx')].tokens = pkgs[k].tokens_included
                   /\ bw' = bw
          /\ Committed(p, "vr_commit")
                => LET t == req[p].tx
                       n == btx[t].tokens
                   IN /\ n > 0
                      /\ bw'.token_balance = bw.token_balance + n
                      /\ Len(btx') = Len(btx)
                      /\ btx'[t].status = "completed"
                      /\ btx'[t].balance_after = bw'.token_balance
                      /\ \A i \in 1..Len(btx) : i # t => btx'[i] = btx[i]]_vars

\* a purchase was verified after its package had been edited: the credit is the
\* stored count, not the table's
VerifiedAfterEdit ==
    \E t \in 1..Len(btx) :
        /\ btx[t].type = "token_credit"
        /\ btx[t].status = "completed"
        /\ btx[t].pname \in PackageIds \ {"free"}
        /\ pkgs[btx[t].pname].tokens_included # btx[t].tokens
        /\ bw.token_balance = Packages.free.tokens_included + btx[t].tokens
        /\ \E p \in Procs : req[p].op = "verifyRecharge" /\ req[p].tx = t /\ req[p].res = "ok"

----------------------------------------------------------------------------
(* Frame conditions *)

\* C15: escrow_on_hold goes up only in the committing step of a holdEscrow and
\* down only in the committing step of a refundEscrow or releaseEscrow; every
\* other step of every operation leaves it alone.
OnHoldFrame ==
    [][/\ bw'.escrow_on_hold > bw.escrow_on_hold
            => \E p \in Procs : req[p].op = "holdEscrow" /\ Committed(p, "hold_update")
       /\ bw'.escrow_on_hold < bw.escrow_on_hold
            => \E p \in Procs :
                  \/ req[p].op = "refundEscrow" /\ Committed(p, "refund_update")
                  \/ req[p].op = "releaseEscrow" /\ Committed(p, "rel_credit")]_vars

\* funds are on hold and a deposit and a token purchase have been completed since
OnHoldAmongOthers ==
    /\ bw.escrow_on_hold > 0
    /\ \E i \in 1..Len(btx) : btx[i].type = "escrow_hold"
    /\ \E j \in 1..Len(btx) :
          /\ btx[j].status = "completed"
          /\ btx[j].type \in {"token_credit", "escrow_deposit"}
          /\ \E i \in 1..j : btx[i].type = "escrow_hold"

----------------------------------------------------------------------------
(* Claims on wallet creation *)

\* the welcome token_credit rows
WelcomeRows == {i \in 1..Len(btx) : btx[i].type = "token_credit" /\ btx[i].ref = "free"}

\* C16: however first accesses interleave, every getOrCreateBrandWallet call
\* that returns hands back the one committed wallet row, there is at most one
\* welcome token_credit row, and no Transaction is committed without the
\* wallet row.
WalletConverges ==
    /\ Cardinality(WelcomeRows) <= 1
    /\ btx # <<>> => bw # NoRow
    /\ \A p \in Procs :
          (req[p].op = "getOrCreateBrandWallet" /\ IsIdle(p) /\ req[p].res # "crashed")
          => /\ req[p].res = "ok"
             /\ bw # NoRow
             /\ req[p].tx = bw.id

\* two first accesses raced: one created the row, the other hit the unique
\* violation, fetched the row again and returned it
BothReturnedOneWallet ==
    /\ bw # NoRow
    /\ Cardinality(WelcomeRows) = 1
    /\ \E p \in Procs : \E q \in Procs \ {p} :
          /\ req[p].op = "getOrCreateBrandWallet" /\ req[p].res = "ok"
          /\ req[q].op = "getOrCreateBrandWallet" /\ req[q].res = "ok"
          /\ bw.id = WalletId(p)
          /\ req[q].tx = WalletId(p)
          /\ nops = 2

----------------------------------------------------------------------------
(* Claims on the atomicity of withdrawals *)

\* C17: a withdrawal Transaction and its wallet effect become visible in one
\* step: the step that records a pending withdrawal also moves its amount from
\* balance to pending_balance, and the step that settles a withdrawal
\* (completed or failed) also applies the payout or the reversal to the wallet.
WithdrawalAtomic ==
    [][/\ Len(ctx') > Len(ctx)
            => LET t == ctx'[Len(ctx')] IN
               t.type = "withdrawal"
               => /\ cw'[t.user].balance = cw[t.user].balance + t.amount
                  /\ cw'[t.user].pending_balance = cw[t.user].pending_balance - t.amount
       /\ \A i \in 1..Len(ctx) :
             (ctx[i].type = "withdrawal" /\ ctx'[i].status # ctx[i].status)
             => cw'[ctx[i].user].pending_balance
                  = cw[ctx[i].user].pending_balance - Abs(ctx[i].amount)]_vars

----------------------------------------------------------------------------
(* Claims on verification failures *)

\* C18: a verify call with an invalid signature on a pending Transaction marks
\* it failed and leaves the wallet alone; a failed Transaction stays failed, and
\* every later verify for it, whatever the signature, fails with 'Transaction
\* not found or already processed' and changes nothing.
InvalidSignatureFinal ==
    [][\A p \in Procs :
          /\ (req[p].pc \in {"vr_failwrite", "ved_failwrite"} /\ IsIdle(p)')
                => /\ btx'[req[p].tx].status = "failed"
                   /\ req'[p].res = "Payment verification failed"
                   /\ bw' = bw
          /\ \A t \in 1..Len(btx) :
                btx[t].status = "failed"
                => /\ btx'[t].status = "failed"
                   /\ \A o \in Orders, sig \in BOOLEAN :
                         (/\ req'[p].op \in {"verifyRecharge", "verifyEscrowDeposit"}
                          /\ req'[p].tx = t
                          /\ \/ verifyRecharge_lookup(p, t, o, sig)
                             \/ verifyEscrowDeposit_lookup(p, t, o, sig))
                         => /\ req'[p].res = NotFound
                            /\ IsIdle(p)'
                            /\ UNCHANGED <<bw, btx>>]_vars

\* a purchase failed on an invalid signature and a later verify for it was
\* turned down; nothing was credited
RetryAfterInvalidRejected ==
    \E t \in 1..Len(btx) :
        /\ btx[t].status = "failed"
        /\ btx[t].type = "token_credit"
        /\ bw.token_balance = Packages.free.tokens_included
        /\ nops >= 3
        /\ \E p \in Procs :
              /\ req[p].op = "verifyRecharge"
              /\ req[p].tx = t
              /\ req[p].res = NotFound

\* C19: a verifyRecharge / verifyEscrowDeposit call that finds the pending
\* Transaction and passes the signature check returns with the Transaction
\* terminal: completed, or failed with the wallet as it was.
PendingNeverLingers ==
    [][\A p \in Procs :
          (/\ \/ verifyRecharge_commit(p)
              \/ verifyEscrowDeposit_commit(p)
              \/ \E t \in 1..Len(btx), o \in Orders :
                    /\ PendingLookup(t, o)
                    /\ \/ verifyRecharge_lookup(p, t, o, TRUE)
                       \/ verifyEscrowDeposit_lookup(p, t, o, TRUE)
           /\ IsIdle(p)')
          => \/ btx'[req'[p].tx].status = "completed"
             \/ /\ btx'[req'[p].tx].status = "failed"
                /\ bw' = bw]_vars

----------------------------------------------------------------------------
(* Claims on balance_after *)

\* the wallets after a deposit of 2 was held for campaign k1 and 1 of it was
\* released to creator c1 (initiateEscrowDeposit, verifyEscrowDeposit,
\* holdEscrow, releaseEscrow)
InitPayout ==
    /\ bw = [FundedWallet(2) EXCEPT !.escrow_balance = 0, !.escrow_on_hold = 1,
                                    !.total_escrow_released = 1]
    /\ btx = <<WelcomeTx, DepositedTx(2),
               BrandTx("escrow_hold", 2, 0, "completed", 0, Null, "-", "-", "k1", "-"),
               BrandTx("escrow_release", 1, 0, "completed", 0, Null, "-", "-", "k1", "c1")>>
    /\ cw = [c \in Creators |->
               IF c = "c1" THEN [NewCreatorWallet EXCEPT !.balance = 1, !.total_earnings = 1]
               ELSE NoRow]
    /\ ctx = <<CreatorTx("c1", "earning", 1, 1, "completed", "k1", "b1")>>
    /\ unlocked = <<>>
    /\ pkgs = Packages
    /\ bank_accounts = <<>>
    /\ req = [p \in Procs |-> Idle("-")]
    /\ hist = NoHist
    /\ nops = 0

\* escrow requests of the brand and withdrawal requests of the creator, running
\* concurrently
NextPayout == NextEscrow \/ NextWithdraw

SpecPayout == InitPayout /\ [][NextPayout]_vars

\* C20: when a Transaction is recorded as completed, its balance_after is the
\* value its wallet field has right after the Transaction's effect: token_balance
\* for token rows, escrow_balance for escrow rows, the creator's balance for
\* earnings, whatever the interleaving.
BalanceAfterExact ==
    [][/\ \A i \in 1..Len(btx') :
             (/\ btx'[i].status = "completed"
              /\ (i > Len(btx) \/ btx[i].status # "completed"))
             => btx'[i].balance_after
                  = IF btx'[i].type \in {"token_credit", "creator_unlock"}
                      THEN bw'.token_balance
                      ELSE bw'.escrow_balance
       /\ \A i \in 1..Len(ctx') :
             (/\ ctx'[i].status = "completed"
              /\ ctx'[i].type = "earning"
              /\ i > Len(ctx))
             => ctx'[i].balance_after = cw'[ctx'[i].user].balance]_vars

----------------------------------------------------------------------------
(* Claims on the package mapping *)

\* C21: crediting a topup purchase, through verifyRecharge or through the
\* webhook, adds the tokens and leaves current_package, current_package_id and
\* package_expires_at as they were; crediting a subscription purchase replaces
\* current_package and package_expires_at.
TopupKeepsTier ==
    [][\A p \in Procs :
          (verifyRecharge_commit(p) \/ handleWebhook_commit(p))
          => LET t == btx[req[p].tx] IN
             /\ t.ptype = "topup"
                  => /\ bw'.token_balance = bw.token_balance + t.tokens
                     /\ bw'.current_package = bw.current_package
                     /\ bw'.current_package_id = bw.current_package_id
                     /\ bw'.package_expires_at = bw.package_expires_at
             /\ t.ptype = "subscription"
                  => /\ bw'.current_package = t.pname
                     /\ bw'.package_expires_at = ExpiresAt(t.validity)]_vars

----------------------------------------------------------------------------
(* Creator earnings outside the escrow engine *)

\* addEarnings / processCampaignPayment, wallet UPDATE: increments in place
EarningsUpdate(w, amount) ==
    [w EXCEPT !.balance = @ + amount, !.total_earnings = @ + amount]

\* addEarnings, getOrCreateWallet: SELECT of the creator's wallet (-1: no row)
addEarnings_read(p, creator, amount) ==
    /\ CanStart(p)
    /\ nops' = nops + 1
    /\ req' = [req EXCEPT ![p] =
                 [Begin(p, "addEarnings",
                        IF cw[creator] = NoRow THEN "ae_insert" ELSE "ae_update",
                        amount, creator, "-")
                    EXCEPT !.rd2 = IF cw[creator] = NoRow THEN -1 ELSE cw[creator].balance]]
    /\ UNCHANGED <<bank_accounts, pkgs, bw, cw, btx, ctx, unlocked, hist>>

\* addEarnings, getOrCreateWallet: INSERT of the wallet row when the SELECT found
\* none (a row committed meanwhile is a unique violation)
addEarnings_insert(p) ==
    /\ req[p].pc = "ae_insert"
    /\ IF cw[req[p].cr] # NoRow
         THEN /\ req' = [req EXCEPT ![p] = Done("addEarnings", 0, "duplicate key")]
              /\ cw' = cw
         ELSE /\ cw' = [cw EXCEPT ![req[p].cr] = NewCreatorWallet]
              /\ req' = [req EXCEPT ![p].pc = "ae_update"]
    /\ UNCHANGED <<bank_accounts, pkgs, bw, btx, ctx, unlocked, hist, nops>>

\* addEarnings, UPDATE of the wallet on the pool; no Transaction is written
addEarnings_update(p) ==
    /\ req[p].pc = "ae_update"
    /\ cw' = [cw EXCEPT ![req[p].cr] = EarningsUpdate(@, req[p].amt)]
    /\ req' = [req EXCEPT ![p] = Done("addEarnings", 0, "ok")]
    /\ UNCHANGED <<bank_accounts, pkgs, bw, btx, ctx, unlocked, hist, nops>>

\* processCampaignPayment: one storage transaction with the UPDATE of the
\* creator's wallet (no row: nothing updated) and the INSERT of a completed
\* campaign_earning row without balance_after
processCampaignPayment(p, creator, amount) ==
    /\ CanStart(p)
    /\ nops' = nops + 1
    /\ cw' = [cw EXCEPT ![creator] = IF @ = NoRow THEN @ ELSE EarningsUpdate(@, amount)]
    /\ ctx' = Append(ctx, CreatorTx(creator, "campaign_earning", amount, Null,
                                    "completed", "application", "-"))
    /\ req' = [req EXCEPT ![p] = Done("processCampaignPayment", Len(ctx) + 1, "ok")]
    /\ UNCHANGED <<bank_accounts, pkgs, bw, btx, unlocked, hist>>

\* the escrow engine, withdrawals and the wallet service's earning credits,
\* running concurrently
NextEarnings ==
    \/ NextEscrow
    \/ NextWithdraw
    \/ \E p \in Procs :
          \/ \E c \in Creators : addEarnings_read(p, c, 1)
          \/ addEarnings_insert(p)
          \/ addEarnings_update(p)
          \/ \E c \in Creators : processCampaignPayment(p, c, 1)

SpecEarnings == (InitEscrow \/ InitPayout) /\ [][NextEarnings]_vars

\* sum of the creators' total_earnings
RECURSIVE SumEarnings(_)
SumEarnings(S) ==
    IF S = {} THEN 0
    ELSE LET c == CHOOSE x \in S : TRUE IN
         (IF cw[c] = NoRow THEN 0 ELSE cw[c].total_earnings) + SumEarnings(S \ {c})

\* C22: a creator's balance or total_earnings goes up only as the creator side
\* of a releaseEscrow that takes the same amount off the brand's escrow_on_hold,
\* or (balance only) as the reversal of the creator's failed withdrawal; so the
\* creators' total_earnings add up to the brand's total_escrow_released.
ReleaseOnlyCrossing ==
    [][/\ \A c \in Creators :
             LET old == IF cw[c] = NoRow THEN NewCreatorWallet ELSE cw[c]
                 new == IF cw'[c] = NoRow THEN NewCreatorWallet ELSE cw'[c]
             IN (new.balance > old.balance \/ new.total_earnings > old.total_earnings)
                => \/ \E p \in Procs :
                         /\ releaseEscrow_credit(p)
                         /\ req[p].cr = c
                         /\ new.balance - old.balance = req[p].amt
                         /\ new.total_earnings - old.total_earnings = req[p].amt
                         /\ bw'.escrow_on_hold = bw.escrow_on_hold - req[p].amt
                   \/ \E p \in Procs :
                         /\ processWithdrawal_wallet(p)
                         /\ req[p].cr = c
                         /\ ~req[p].flag
                         /\ new.total_earnings = old.total_earnings
       /\ SumEarnings(Creators)' = bw'.total_escrow_released]_vars

----------------------------------------------------------------------------
(* Claims on the frame of a hold *)

\* C23: a committed holdEscrow changes escrow_balance by -amount and
\* escrow_on_hold by +amount; escrow_balance + escrow_on_hold,
\* total_escrow_deposited, total_escrow_released and total_escrow_refunded are
\* as they were before the hold.
HoldKeepsEscrowSum ==
    [][\A p \in Procs :
          holdEscrow_commit(p)
          => /\ bw'.escrow_balance = bw.escrow_balance - req[p].amt
             /\ bw'.escrow_on_hold = bw.escrow_on_hold + req[p].amt
             /\ bw'.escrow_balance + bw'.escrow_on_hold
                  = bw.escrow_balance + bw.escrow_on_hold
             /\ bw'.total_escrow_deposited = bw.total_escrow_deposited
             /\ bw'.total_escrow_released = bw.total_escrow_released
             /\ bw'.total_escrow_refunded = bw.total_escrow_refunded]_vars

\* a hold has just committed on a wallet that had refunded and released funds
\* before it
HoldAfterRefundAndRelease ==
    /\ hist.kind = "hold"
    /\ bw.escrow_on_hold = hist.oh + hist.amt
    /\ bw.escrow_balance = hist.eb - hist.amt
    /\ bw.total_escrow_refunded > 0
    /\ bw.total_escrow_released > 0

----------------------------------------------------------------------------
(* Bank accounts: every statement runs on the pool and commits on its own *)

\* ids of the creator's bank_accounts rows
AccountsOf(c) == {i \in 1..Len(bank_accounts) : bank_accounts[i].user_id = c}

\* ids of the creator's active rows
ActiveAccounts(c) == {i \in AccountsOf(c) : bank_accounts[i].is_active}

\* ids of the creator's rows flagged is_primary
PrimaryAccounts(c) == {i \in AccountsOf(c) : bank_accounts[i].is_primary}

\* addBankAccount, COUNT of the creator's active accounts: the new account is
\* primary when there is none
addBankAccount_count(p, c) ==
    /\ CanStart(p)
    /\ nops' = nops + 1
    /\ req' = [req EXCEPT ![p] =
                 [Begin(p, "addBankAccount", "ba_insert", 0, c, "-")
                    EXCEPT !.flag = (ActiveAccounts(c) = {})]]
    /\ UNCHANGED <<bank_accounts, pkgs, bw, cw, btx, ctx, unlocked, hist>>

\* addBankAccount, INSERT of the row
addBankAccount_insert(p) ==
    /\ req[p].pc = "ba_insert"
    /\ bank_accounts' = Append(bank_accounts,
                               [user_id |-> req[p].cr, verification_status |-> "pending",
                                is_primary |-> req[p].flag, is_active |-> TRUE])
    /\ req' = [req EXCEPT ![p] = Done("addBankAccount", Len(bank_accounts) + 1, "ok")]
    /\ UNCHANGED <<pkgs, bw, cw, btx, ctx, unlocked, hist, nops>>

\* setPrimaryAccount, SELECT of the account by id and owner
setPrimaryAccount_read(p, c, accountId) ==
    /\ CanStart(p)
    /\ nops' = nops + 1
    /\ IF accountId \notin AccountsOf(c)
         THEN req' = [req EXCEPT ![p] = Done("setPrimaryAccount", accountId, "Bank account not found")]
         ELSE req' = [req EXCEPT ![p] =
                        [Begin(p, "setPrimaryAccount", "sp_clear", 0, c, "-")
                           EXCEPT !.tx = accountId]]
    /\ UNCHANGED <<bank_accounts, pkgs, bw, cw, btx, ctx, unlocked, hist>>

\* setPrimaryAccount, UPDATE of all the creator's rows to is_primary = false
setPrimaryAccount_clear(p) ==
    /\ req[p].pc = "sp_clear"
    /\ bank_accounts' = [i \in 1..Len(bank_accounts) |->
                           IF bank_accounts[i].user_id = req[p].cr
                             THEN [bank_accounts[i] EXCEPT !.is_primary = FALSE]
                             ELSE bank_accounts[i]]
    /\ req' = [req EXCEPT ![p].pc = "sp_set"]
    /\ UNCHANGED <<pkgs, bw, cw, btx, ctx, unlocked, hist, nops>>

\* setPrimaryAccount, UPDATE of the row by id to is_primary = true
setPrimaryAccount_set(p) ==
    /\ req[p].pc = "sp_set"
    /\ bank_accounts' = [bank_accounts EXCEPT ![req[p].tx].is_primary = TRUE]
    /\ req' = [req EXCEPT ![p] = Done("setPrimaryAccount", req[p].tx, "ok")]
    /\ UNCHANGED <<pkgs, bw, cw, btx, ctx, unlocked, hist, nops>>

\* deleteBankAccount, SELECT of the account by id and owner
deleteBankAccount_read(p, c, accountId) ==
    /\ CanStart(p)
    /\ nops' = nops + 1
    /\ IF accountId \notin AccountsOf(c)
         THEN req' = [req EXCEPT ![p] = Done("deleteBankAccount", accountId, "Bank account not found")]
         ELSE req' = [req EXCEPT ![p] =
                        [Begin(p, "deleteBankAccount", "del_deactivate", 0, c, "-")
                           EXCEPT !.tx = accountId,
                                  !.flag = bank_accounts[accountId].is_primary]]
    /\ UNCHANGED <<bank_accounts, pkgs, bw, cw, btx, ctx, unlocked, hist>>

\* deleteBankAccount, UPDATE of the row by id to is_active = false; is_primary
\* is not in the UPDATE
deleteBankAccount_deactivate(p) ==
    /\ req[p].pc = "del_deactivate"
    /\ bank_accounts' = [bank_accounts EXCEPT ![req[p].tx].is_active = FALSE]
    /\ req' = [req EXCEPT ![p] = IF req[p].flag
                                   THEN [req[p] EXCEPT !.pc = "del_next"]
                                   ELSE Done("deleteBankAccount", req[p].tx, "ok")]
    /\ UNCHANGED <<pkgs, bw, cw, btx, ctx, unlocked, hist, nops>>

\* deleteBankAccount, the account was primary: SELECT of one active account of
\* the creator (first() without an order: any of them)
deleteBankAccount_next(p) ==
    /\ req[p].pc = "del_next"
    /\ IF ActiveAccounts(req[p].cr) = {}
         THEN req' = [req EXCEPT ![p] = Done("deleteBankAccount", req[p].tx, "ok")]
         ELSE \E n \in ActiveAccounts(req[p].cr) :
                 req' = [req EXCEPT ![p].pc = "del_promote", ![p].rd = n]
    /\ UNCHANGED <<bank_accounts, pkgs, bw, cw, btx, ctx, unlocked, hist, nops>>

\* deleteBankAccount, UPDATE of the chosen row to is_primary = true
deleteBankAccount_promote(p) ==
    /\ req[p].pc = "del_promote"
    /\ bank_accounts' = [bank_accounts EXCEPT ![req[p].rd].is_primary = TRUE]
    /\ req' = [req EXCEPT ![p] = Done("deleteBankAccount", req[p].tx, "ok")]
    /\ UNCHANGED <<pkgs, bw, cw, btx, ctx, unlocked, hist, nops>>

\* account ids a caller may send: the rows there are, and one there is not
AccountIds == 1..(Len(bank_accounts) + 1)

\* concurrent bank account requests of a creator
NextBank ==
    \E p \in Procs :
        \/ \E c \in Creators : addBankAccount_count(p, c)
        \/ addBankAccount_insert(p)
        \/ \E c \in Creators, a \in AccountIds : setPrimaryAccount_read(p, c, a)
        \/ setPrimaryAccount_clear(p)
        \/ setPrimaryAccount_set(p)
        \/ \E c \in Creators, a \in AccountIds : deleteBankAccount_read(p, c, a)
        \/ deleteBankAccount_deactivate(p)
        \/ deleteBankAccount_next(p)
        \/ deleteBankAccount_promote(p)

SpecBank == Init /\ [][NextBank]_vars

\* C24: whenever no bank account request is in flight and the creator has an
\* active account, exactly one of the creator's bank accounts is flagged
\* is_primary.
ExactlyOnePrimary ==
    Quiescent
    => \A c \in Creators :
          ActiveAccounts(c) # {} => Cardinality(PrimaryAccounts(c)) = 1

----------------------------------------------------------------------------
(* Claims on concurrent token mutations *)

\* concurrent recharge requests and creator unlocks on the same brand wallet
NextTokens ==
    \/ NextRecharge
    \/ \E p \in Procs :
          \/ \E c \in Creators : unlockCreator_read(p, c)
          \/ unlockCreator_commit(p)

SpecTokens == Init /\ [][NextTokens]_vars

\* C25: once the concurrent credits and debits of a brand wallet have returned,
\* token_balance is the initial balance plus every committed credit minus every
\* committed debit (total_tokens_credited and total_tokens_debited count them,
\* the welcome credit included).
NoLostTokenUpdate ==
    Quiescent => bw.token_balance = bw.total_tokens_credited - bw.total_tokens_debited

----------------------------------------------------------------------------
(* Claims on the webhook *)

\* C26: processing a pending recharge Transaction through
\* handleWebhook(payment.captured) leaves the wallet (token_balance,
\* total_tokens_credited, current_package, current_package_id,
\* package_expires_at) and the Transaction (status, balance_after) as
\* verifyRecharge with a valid signature would leave them from the same state:
\* credited as RechargeCredit credits when the stored token amount is positive,
\* untouched and pending when it is not.
WebhookSameAsVerify ==
    [][\A p \in Procs :
          (handleWebhook_commit(p) /\ btx[req[p].tx].type = "token_credit")
          => LET t == btx[req[p].tx]
                 tokens == ParseTokens(t.tokens)
                 byVerify == IF tokens <= 0 THEN bw
                             ELSE RechargeCredit(bw, bw.token_balance, tokens, t.ptype,
                                                 t.pname, t.ref, t.validity)
             IN /\ bw'.token_balance = byVerify.token_balance
                /\ bw'.total_tokens_credited = byVerify.total_tokens_credited
                /\ bw'.current_package = byVerify.current_package
                /\ bw'.current_package_id = byVerify.current_package_id
                /\ bw'.package_expires_at = byVerify.package_expires_at
                /\ btx'[req[p].tx].status = IF tokens <= 0 THEN "pending" ELSE "completed"
                /\ btx'[req[p].tx].balance_after
                     = IF tokens <= 0 THEN t.balance_after ELSE byVerify.token_balance]_vars

\* C27: handleWebhook changes a wallet or a Transaction only for a signature
\* that equals the HMAC of the payload: a call with another signature returns
\* at once with processed = false ('Invalid signature', or nothing pending for
\* the order) and changes nothing, whether or not a webhook secret is
\* configured, and no webhook credit commits for it.
WebhookNeedsValidHmac ==
    [][\A p \in Procs :
          /\ \A o \in Orders, sec \in BOOLEAN :
                handleWebhook_lookup(p, o, FALSE, sec)
                => /\ IsIdle(p)'
                   /\ req'[p].res \in {"Invalid signature", "Transaction already processed"}
                   /\ UNCHANGED <<bw, btx>>
          /\ handleWebhook_commit(p) => req[p].flag]_vars

----------------------------------------------------------------------------
(* verifyRecharge: a failure after the commit *)

\* the amount from which verifyRecharge looks the brand up for the admin
\* notification (10000 in the code, in the model's units)
HighValueAmount == 5

\* verifyRecharge from the wallet UPDATE to the commit, for a high-value
\* purchase whose brand lookup then fails: the credit and the completed row are
\* committed, the SELECT on brands throws inside the try
verifyRecharge_commit_lookupFails(p) ==
    /\ req[p].pc = "vr_commit"
    /\ ~BwLockedByOther(p)
    /\ btx[req[p].tx].amount >= HighValueAmount
    /\ LET t == btx[req[p].tx]
           newBalance == req[p].rd + req[p].amt
       IN /\ bw' = RechargeCredit(bw, req[p].rd, req[p].amt, t.ptype, t.pname,
                                  t.ref, t.validity)
          /\ btx' = [btx EXCEPT ![req[p].tx].status = "completed",
                                ![req[p].tx].balance_after = newBalance]
    /\ req' = [req EXCEPT ![p].pc = "vr_catch"]
    /\ UNCHANGED <<bank_accounts, pkgs, cw, ctx, unlocked, hist, nops>>

\* verifyRecharge, catch block after the commit: trx.rollback() on the
\* committed transaction either rejects (the error leaves the catch block) or
\* does nothing, and then the row is updated by id alone to failed and the call
\* throws
verifyRecharge_catch(p) ==
    /\ req[p].pc = "vr_catch"
    /\ \/ /\ btx' = btx
          /\ req' = [req EXCEPT ![p] = Done("verifyRecharge", req[p].tx,
                                            "Transaction query already complete")]
       \/ /\ btx' = [btx EXCEPT ![req[p].tx].status = "failed"]
          /\ req' = [req EXCEPT ![p] =
                       Done("verifyRecharge", req[p].tx,
                            "Payment successful but failed to credit tokens. Please contact support.")]
    /\ UNCHANGED <<bank_accounts, pkgs, bw, cw, ctx, unlocked, hist, nops>>

\* purchases by a single caller, with the brand lookup after the commit liable
\* to fail
NextPostCommit ==
    \/ NextPurchase
    \/ \E p \in {"p1"} :
          \/ verifyRecharge_commit_lookupFails(p)
          \/ verifyRecharge_catch(p)

SpecPostCommit == Init /\ [][NextPostCommit]_vars

\* C28: when a step after verifyRecharge's commit fails, the call still returns
\* success, the Transaction stays completed and the wallet stays credited.
PostCommitFailureHarmless ==
    [][\A p \in Procs :
          verifyRecharge_catch(p)
          => /\ req'[p].res = "ok"
             /\ btx'[req[p].tx].status = "completed"
             /\ bw' = bw]_vars

----------------------------------------------------------------------------
(* Claims on the checks of requestWithdrawal *)

\* the minimum withdrawal the POST /withdrawals route declares (100 in the
\* code, in the model's units)
MinimumWithdrawal == 2

\* C29: requestWithdrawal rejects, writing no Transaction and changing no
\* wallet, when the bank account is missing or not the creator's, when it is
\* not verified, when the amount is below the minimum withdrawal and when the
\* balance is below the amount; funds are reserved only when all checks pass.
WithdrawalChecks ==
    [][\A p \in Procs :
          /\ \A c \in Creators, a \in AnyAmounts, b \in BankStates :
                (/\ requestWithdrawal_read(p, c, a, b)
                 /\ \/ b # "verified"
                    \/ a < MinimumWithdrawal
                    \/ cw[c] = NoRow
                    \/ cw[c].balance < a)
                => /\ IsIdle(p)'
                   /\ req'[p].res # "ok"
                   /\ UNCHANGED <<cw, ctx>>
          /\ (requestWithdrawal_insert(p) \/ requestWithdrawal_update(p))
                => req[p].amt >= MinimumWithdrawal]_vars

----------------------------------------------------------------------------
(* Claims on deposit-initiate *)

\* C30: initiateEscrowDeposit of an amount that escrow_balance covers returns
\* that no payment is required and creates neither an order nor a Transaction;
\* of a larger amount it creates one order and one pending escrow_deposit
\* Transaction for exactly amount - escrow_balance; no wallet field changes in
\* either case.
DepositInitiateShortfall ==
    [][\A p \in Procs, a \in Amounts :
          initiateEscrowDeposit(p, a)
          => /\ bw' = bw
             /\ cw' = cw
             /\ IF bw.escrow_balance >= a
                  THEN /\ req'[p].res = "no payment required"
                       /\ btx' = btx
                  ELSE /\ req'[p].res = "ok"
                       /\ Len(btx') = Len(btx) + 1
                       /\ SubSeq(btx', 1, Len(btx)) = btx
                       /\ LET t == btx'[Len(btx')] IN
                            /\ t.type = "escrow_deposit"
                            /\ t.status = "pending"
                            /\ t.amount = a - bw.escrow_balance
                            /\ t.order \notin Orders \cup {0}
                            /\ req'[p].tx = Len(btx')]_vars

\* a deposit was initiated on a partly funded wallet: the pending Transaction
\* is for the shortfall, less than the amount asked for
ShortfallOrdered ==
    \E p \in Procs :
        /\ req[p].op = "initiateEscrowDeposit"
        /\ req[p].res = "ok"
        /\ req[p].tx \in 1..Len(btx)
        /\ btx[req[p].tx].status = "pending"
        /\ btx[req[p].tx].amount = 1
        /\ bw.escrow_balance = 1

----------------------------------------------------------------------------
(* Claims on deposit-verify *)

\* C31: a successful verifyEscrowDeposit increases escrow_balance and
\* total_escrow_deposited by exactly the pending Transaction's amount and
\* leaves escrow_on_hold, total_escrow_released, total_escrow_refunded and
\* token_balance unchanged.
DepositVerifyFrame ==
    [][\A p \in Procs :
          verifyEscrowDeposit_commit(p)
          => LET amount == btx[req[p].tx].amount IN
               /\ btx[req[p].tx].status = "pending"
               /\ btx'[req[p].tx].status = "completed"
               /\ bw'.escrow_balance = bw.escrow_balance + amount
               /\ bw'.total_escrow_deposited = bw.total_escrow_deposited + amount
               /\ bw'.escrow_on_hold = bw.escrow_on_hold
               /\ bw'.total_escrow_released = bw.total_escrow_released
               /\ bw'.total_escrow_refunded = bw.total_escrow_refunded
               /\ bw'.token_balance = bw.token_balance]_vars

\* a deposit was verified on a wallet that holds escrow for a campaign and
\* whose available pool had moved since the deposit was initiated
DepositVerifiedWithHold ==
    \E p \in Procs :
        /\ req[p].op = "verifyEscrowDeposit"
        /\ req[p].res = "ok"
        /\ req[p].tx \in 1..Len(btx)
        /\ btx[req[p].tx].status = "completed"
        /\ bw.escrow_on_hold > 0
        /\ bw.escrow_balance = btx[req[p].tx].amount

----------------------------------------------------------------------------
(* Claims on recharge-initiate *)

\* C32: initiateRecharge rejects a package id that is not in the table, an
\* inactive package and a package with price <= 0, and a rejected call creates
\* no order and no pending Transaction and leaves the wallet unchanged; only
\* an accepted call inserts a row, exactly one, pending and keyed by the order
\* reference created for it (an order exists in the model only as the
\* reference of the row inserted with it).
InitiateRechargeRejects ==
    [][\A p \in Procs, k \in PackageRequests :
          initiateRecharge(p, k)
          => /\ bw' = bw
             /\ (k \notin DOMAIN pkgs \/ ~pkgs[k].is_active)
                   => req'[p].res = "Package not found or inactive"
             /\ (k \in DOMAIN pkgs /\ pkgs[k].is_active /\ pkgs[k].user_type = "brand"
                   /\ pkgs[k].price <= 0)
                   => req'[p].res = "This is a free package and cannot be purchased."
             /\ IF req'[p].res = "ok"
                  THEN /\ Len(btx') = Len(btx) + 1
                       /\ SubSeq(btx', 1, Len(btx)) = btx
                       /\ LET t == btx'[Len(btx')] IN
                            /\ t.status = "pending"
                            /\ t.type = "token_credit"
                            /\ t.order \notin Orders \cup {0}
                            /\ t.amount = pkgs[k].price
                            /\ req'[p].tx = Len(btx')
                  ELSE /\ btx' = btx
                       /\ {btx'[i].order : i \in 1..Len(btx')} \ {0} = Orders]_vars

\* every rejection has happened and nothing was inserted: a call naming an
\* unknown or inactive package and a call naming the free package both ended
\* in their errors with the Transaction log as the wallet's creation left it
InitiateRejected ==
    /\ Len(btx) = 1
    /\ req["p1"].op = "initiateRecharge"
    /\ req["p1"].res = "This is a free package and cannot be purchased."
    /\ req["p2"].op = "initiateRecharge"
    /\ req["p2"].res = "Package not found or inactive"

----------------------------------------------------------------------------
(* Claims on concurrent unlocks *)

\* C33: in every interleaving of unlockCreator and bulkUnlockCreators calls
\* naming the same (brand, creator) pair, the pair has at most one unlock
\* record and at most one creator_unlock Transaction, and no step lowers
\* token_balance by more than the unlock cost for each pair it newly unlocks.
UnlockPairOnce ==
    [][/\ \A c \in Users :
             /\ Cardinality({i \in 1..Len(unlocked') : unlocked'[i] = c}) <= 1
             /\ Cardinality({i \in 1..Len(btx') :
                                /\ btx'[i].type = "creator_unlock"
                                /\ btx'[i].ref = c}) <= 1
       /\ bw.token_balance - bw'.token_balance
             <= ReportTokenCost(ActivePackage(bw)) * (Len(unlocked') - Len(unlocked))]_vars

\* two unlocks of the same creator ran concurrently, both past the
\* already-unlocked check: one committed and charged, the other was rolled back
ConcurrentUnlockSamePair ==
    /\ req["p1"].op \in {"unlockCreator", "bulkUnlockCreators"}
    /\ req["p1"].res = "ok"
    /\ req["p2"].op \in {"unlockCreator", "bulkUnlockCreators"}
    /\ req["p2"].res = "duplicate key value violates unique constraint"
    /\ Len(unlocked) = 1
    /\ bw.token_balance = Packages.free.tokens_included - ReportTokenCost("free")

----------------------------------------------------------------------------
(* Claims on the creator wallet's creation *)

\* C34: when two operations (addEarnings through getOrCreateWallet, or
\* releaseEscrow paying the creator) concurrently access a creator with no
\* wallet row, none of them fails because of the duplicate-creation attempt:
\* no call ends in the unique violation of its INSERT.
CreatorWalletRaceSafe ==
    \A p \in Procs :
        req[p].op \in {"releaseEscrow", "addEarnings"} => req[p].res # "duplicate key"

----------------------------------------------------------------------------
(* Claims on the sign of amounts *)

\* C35: every Transaction that credits its wallet's balance field records a
\* positive amount and every Transaction that debits it (withdrawal,
\* escrow_hold, escrow_release on the brand side, creator_unlock) records a
\* negative amount.
AmountsSigned ==
    /\ \A i \in 1..Len(btx) :
          /\ btx[i].type \in {"escrow_hold", "escrow_release", "creator_unlock"}
                => btx[i].amount < 0
          /\ btx[i].type \in {"token_credit", "escrow_deposit", "escrow_refund"}
                => btx[i].amount > 0
    /\ \A i \in 1..Len(ctx) :
          /\ ctx[i].type = "withdrawal" => ctx[i].amount < 0
          /\ ctx[i].type = "earning" => ctx[i].amount > 0

----------------------------------------------------------------------------
(* Claims on the escrow accounting identity *)

\* C36: in every state reached by any sequence of deposit-verify, holdEscrow,
\* releaseEscrow and refundEscrow from a freshly created brand wallet,
\* total_escrow_deposited = escrow_balance + escrow_on_hold +
\* total_escrow_released, and total_escrow_deposited, total_escrow_released
\* and total_escrow_refunded never decrease.
EscrowIdentity ==
    /\ [](bw.total_escrow_deposited
            = bw.escrow_balance + bw.escrow_on_hold + bw.total_escrow_released)
    /\ [][/\ bw'.total_escrow_deposited >= bw.total_escrow_deposited
          /\ bw'.total_escrow_released >= bw.total_escrow_released
          /\ bw'.total_escrow_refunded >= bw.total_escrow_refunded]_vars

\* a wallet that has seen all four: a second deposit verified, escrow held,
\* released and refunded
EscrowAllFourDone ==
    /\ bw.total_escrow_released > 0
    /\ bw.total_escrow_refunded > 0
    /\ Cardinality({i \in 1..Len(btx) : btx[i].type = "escrow_deposit"
                                          /\ btx[i].status = "completed"}) >= 2
    /\ \E i \in 1..Len(btx) : btx[i].type = "escrow_hold"

----------------------------------------------------------------------------
(* Claims on the webhook and escrow deposits *)

\* C37: a pending escrow_deposit Transaction is completed only by
\* verifyEscrowDeposit crediting escrow_balance by its amount: no step other
\* than verifyEscrowDeposit's commit takes an escrow_deposit Transaction from
\* pending to completed, and the webhook changes neither token_balance nor
\* current_package on behalf of one.
DepositCompletedOnlyByVerify ==
    [][\A i \in 1..Len(btx) :
          (/\ btx[i].type = "escrow_deposit"
           /\ btx[i].status = "pending"
           /\ btx'[i].status = "completed")
          => /\ \E p \in Procs : verifyEscrowDeposit_commit(p) /\ req[p].tx = i
             /\ bw'.escrow_balance = bw.escrow_balance + btx[i].amount
             /\ bw'.token_balance = bw.token_balance
             /\ bw'.current_package = bw.current_package]_vars

----------------------------------------------------------------------------
(* Claims on the token accounting identity *)

\* C38: in every quiescent state reached by any interleaving of brand wallet
\* creation, verifyRecharge, handleWebhook, unlockCreator and
\* bulkUnlockCreators, token_balance = total_tokens_credited -
\* total_tokens_debited.
TokenIdentity ==
    Quiescent => bw.token_balance = bw.total_tokens_credited - bw.total_tokens_debited

----------------------------------------------------------------------------
(* Claims on the creator accounting identity *)

\* C39: in every quiescent state reached by any sequence of releaseEscrow
\* credits, requestWithdrawal and processWithdrawal from a freshly created
\* creator wallet, balance + pending_balance + total_withdrawals =
\* total_earnings, and pending_balance equals the sum of the absolute amounts
\* of the creator's withdrawal Transactions whose status is pending or
\* processing.
CreatorIdentity ==
    Quiescent =>
      \A c \in Creators :
          cw[c] # NoRow =>
            /\ cw[c].balance + cw[c].pending_balance + cw[c].total_withdrawals
                  = cw[c].total_earnings
            /\ cw[c].pending_balance
                  = SumTo([i \in 1..Len(ctx) |->
                             IF /\ ctx[i].user = c
                                /\ ctx[i].type = "withdrawal"
                                /\ ctx[i].status \in {"pending", "processing"}
                               THEN Abs(ctx[i].amount) ELSE 0], Len(ctx))

----------------------------------------------------------------------------
(* Claims on bulk unlock *)

\* report_token_cost values an administrator may give a package (0: the code
\* falls back to 5)
TokenCosts == {0, 2}

\* the packages table is edited (an administrator changes a package's
\* report_token_cost) between requests
editPackageCost(k, n) ==
    /\ Quiescent
    /\ nops < MaxSeqOps
    /\ nops' = nops + 1
    /\ pkgs[k].report_token_cost # n
    /\ pkgs' = [pkgs EXCEPT ![k].report_token_cost = n]
    /\ UNCHANGED <<bank_accounts, bw, cw, btx, ctx, unlocked, req, hist>>

\* single and bulk unlocks by one caller, one request at a time, with the
\* unlock cost edited between requests and an escrow deposit whose webhook
\* leaves the wallet with a package name that resolves to no package
NextBulk ==
    \/ \E n \in TokenCosts : editPackageCost("free", n)
    \/ \E p \in {"p1"} :
          \/ /\ Quiescent
             /\ nops < MaxSeqOps
             /\ \/ \E c \in Users \cup {"nouser"} : unlockCreator_read(p, c)
                \/ \E ids \in CreatorLists : bulkUnlockCreators_read(p, ids)
                \/ initiateEscrowDeposit(p, 1)
                \/ \E o \in Orders : handleWebhook_lookup(p, o, TRUE, TRUE)
          \/ unlockCreator_commit(p)
          \/ bulkUnlockCreators_commit(p)
          \/ handleWebhook_read(p)
          \/ handleWebhook_commit(p)

SpecBulk == Init /\ [][NextBulk]_vars

\* C40: bulkUnlockCreators unlocks a creator only while the running token
\* balance >= the per-creator cost and skips already-unlocked creators without
\* charge; on commit token_balance has decreased by exactly cost x (number
\* unlocked) = total_tokens_spent, with one creator_unlock Transaction and one
\* unlock record per unlocked creator, each Transaction's balance_after equal
\* to the running balance after that unlock; a call that fails persists none
\* of these.
BulkUnlockAccounting ==
    [][\A p \in Procs :
          /\ (\E ids \in CreatorLists : bulkUnlockCreators_read(p, ids))
                => UNCHANGED <<bw, btx, unlocked>>
          /\ bulkUnlockCreators_commit(p)
                => IF req'[p].res = "ok"
                     THEN LET n == Len(unlocked') - Len(unlocked)
                              cost == ReportTokenCost(ActivePackage(bw))
                          IN /\ n = req'[p].tx
                             /\ bw.token_balance - bw'.token_balance = cost * n
                             /\ req'[p].amt = cost * n
                             /\ bw'.total_tokens_debited = bw.total_tokens_debited + cost * n
                             /\ Len(btx') = Len(btx) + n
                             /\ SubSeq(btx', 1, Len(btx)) = btx
                             /\ SubSeq(unlocked', 1, Len(unlocked)) = unlocked
                             /\ \A j \in 1..n :
                                   LET t == btx'[Len(btx) + j] IN
                                     /\ t.type = "creator_unlock"
                                     /\ t.status = "completed"
                                     /\ t.amount = cost
                                     /\ t.ref = unlocked'[Len(unlocked) + j]
                                     /\ t.ref \in Users
                                     /\ UnlockRows(t.ref) = {}
                                     /\ t.balance_after = bw.token_balance - cost * j
                                     /\ t.balance_after >= 0
                             /\ \A i, j \in 1..Len(unlocked') :
                                   unlocked'[i] = unlocked'[j] => i = j
                     ELSE UNCHANGED <<bw, btx, unlocked>>]_vars

\* a bulk unlock of three creators on a balance that pays for one more: the
\* creator unlocked before was skipped, the next was unlocked and the last
\* failed for lack of tokens
BulkUnlockedSome ==
    /\ req["p1"].op = "bulkUnlockCreators"
    /\ req["p1"].res = "ok"
    /\ req["p1"].tx = 1
    /\ unlocked = <<"c1", "c2">>
    /\ bw.token_balance = 0

============================================================================
